---- MODULE Spec2Model ----
(***************************************************************************)
(* Model of the analysis core of trading-dashboard (src/btc_analysis.py):  *)
(*   - get_analysis_with_retry, the retry loop around the provider call,   *)
(*     as a process with a program counter;                                *)
(*   - calculate_entry_exit_levels, the scoring and level projection, as   *)
(*     an operator applied to inputs drawn from bounded sets.              *)
(*                                                                         *)
(* Numbers.  Python floats are modelled by exact rationals held as scaled  *)
(* integers.  A delay is held as delay * DelayScale; a computed price      *)
(* (entry, stop, target) is held as price * Scale; indicator values and    *)
(* the close price are plain non-negative integers, in units of PriceUnit  *)
(* dollars: every comparison the function makes between prices and every   *)
(* product it forms is homogeneous in the prices.                          *)
(***************************************************************************)
EXTENDS Integers, Sequences, FiniteSets, TLC

VARIABLES
    \* ---- get_analysis_with_retry ----
    pc,           \* "idle" | "loop" (at the for head) | "sleep" (in time.sleep) | "done"
    max_retries,  \* parameter
    symbols,      \* parameter: the list of requested symbols
    delay0,       \* parameter: the delay argument as passed by the caller (seconds)
    attempt,      \* loop variable
    delay,        \* local delay, scaled by DelayScale
    analysis,     \* local: the last response assigned by the provider call
    result,       \* what the call handed to its caller
    retLine,      \* source line of the return statement taken (0: none yet)
    calls,        \* provider calls made by this invocation
    sleeps,       \* the delays slept by this invocation, in order, scaled
    outcomes,     \* kinds of the provider outcomes of this invocation, in order
    \* ---- calculate_entry_exit_levels ----
    lpc,          \* "ready" | "returned"
    close_price,  \* argument
    indicators,   \* argument: dict from indicator name to value
    metrics,      \* argument: dict with key rating
    scores,       \* locals <<bullish_score, bearish_score>> once computed
    selected,     \* local best_support / best_resistance once the branch has run
    projected,    \* the local dict levels as it stands at line 372, before validation
    levels,       \* the outcome of the call
    \* ---- analyze_btc_daily ----
    apc,            \* "idle" | "fetching" (in get_analysis_with_retry) | "done"
    metricsOutcome, \* what compute_metrics returned or raised in this call
    metricsCalls,   \* calls of compute_metrics made by this call
    levelsCalls,    \* calls of calculate_entry_exit_levels made by this call
    aresult,        \* what the call handed to its caller
    history,        \* the calls of analyze_btc_daily completed so far, in order
    \* ---- streamlit_btc_dashboard: the rate-limit gate ----
    now,          \* time_module.time(), in seconds
    rateFile,     \* the content of RATE_LIMIT_FILE, shared by every session
    sess,         \* per browser session: its position and its st.session_state
    starts        \* the analysis starts so far, in order, over all sessions

retryVars == <<pc, max_retries, symbols, delay0, attempt, delay, analysis, result,
               retLine, calls, sleeps, outcomes>>
levelVars == <<lpc, close_price, indicators, metrics, scores, selected, projected, levels>>
analyzeVars == <<apc, metricsOutcome, metricsCalls, levelsCalls, aresult, history>>
dashVars == <<now, rateFile, sess, starts>>
vars == <<retryVars, levelVars, analyzeVars, dashVars>>

\* The dashboard as it stands before any browser session has opened the page.
\* A session is a record: state is "absent" (not opened yet), "idle" (between
\* script runs), "saving" (inside save_rate_limit_state), "analysing" (inside
\* analyze_btc_daily); last, cooldown and cached are the keys
\* last_analysis_time, cooldown_seconds and cached_result of st.session_state.
NoTime == -1
TickSeconds == 30
\* The browser sessions that can open the page: two tabs of one server.
SessionIds == {"tab1", "tab2"}
AbsentSession == [state |-> "absent", last |-> NoTime, cooldown |-> 0, cached |-> "none"]
MissingFile == [content |-> "missing", t |-> NoTime]
DashIdle ==
    /\ now = TickSeconds
    /\ rateFile = MissingFile
    /\ sess = [s \in SessionIds |-> AbsentSession]
    /\ starts = <<>>

RECURSIVE Pow(_, _)
Pow(b, e) == IF e = 0 THEN 1 ELSE b * Pow(b, e - 1)

(***************************************************************************)
(* Bounds of the model.                                                    *)
(***************************************************************************)
MaxRetries == 3    \* max_retries ranges over 0..MaxRetries
MaxDelay == 2      \* the delay argument ranges over 1..MaxDelay seconds

DelayScale == Pow(2, MaxRetries)

(***************************************************************************)
(* The provider: get_multiple_analysis returns None or a dict from symbol  *)
(* to an entry (None or data), or raises.                                  *)
(***************************************************************************)
Symbols == {"BTC", "ETH"}
Entries == {"NULL", "data"}
SymbolLists == {<<"BTC">>, <<"ETH", "BTC">>}

NoneValue == [kind |-> "None", entries |-> <<>>]
Unbound == [kind |-> "unbound", entries |-> <<>>]
Pending == [kind |-> "pending", entries |-> <<>>]
Raised == [kind |-> "raised", entries |-> <<>>]

Dicts == UNION {[S -> Entries] : S \in SUBSET Symbols}
Responses == {NoneValue} \cup {[kind |-> "dict", entries |-> f] : f \in Dicts}
Exceptions == {"JSONDecodeError", "ConnectionError", "Exception"}
ProviderOutcomes ==
    {[exc |-> "none", value |-> r] : r \in Responses}
        \cup {[exc |-> e, value |-> NoneValue] : e \in Exceptions}

\* Python truthiness of a response: None and the empty dict are falsy.
Truthy(a) == a.kind = "dict" /\ DOMAIN a.entries # {}

\* Faulty variant of IsValid: the 'is not None' test on the entry is dropped.
IsValidNoNoneCheck(a, syms) ==
    /\ Truthy(a)
    /\ syms[1] \in DOMAIN a.entries

\* line 73: analysis and symbols[0] in analysis and analysis[symbols[0]] is not None
IsValid(a, syms) ==
    /\ Truthy(a)
    /\ syms[1] \in DOMAIN a.entries
    /\ a.entries[syms[1]] # "NULL"

\* The kind of one provider outcome, for the history.
OutcomeKind(o, syms) ==
    IF o.exc # "none" THEN o.exc
    ELSE IF o.value.kind = "None" THEN "none"
    ELSE IF DOMAIN o.value.entries = {} THEN "emptydict"
    ELSE IF syms[1] \notin DOMAIN o.value.entries THEN "nosymbol"
    ELSE IF o.value.entries[syms[1]] = "NULL" THEN "symnone"
    ELSE "valid"

\* Faulty variant of LoopContinues: range(max_retries + 1).
LoopContinuesOffByOne(a, n) == a <= n

\* line 62: for attempt in range(max_retries)
LoopContinues(a, n) == a < n

\* Faulty variant of RetryLeft: the last attempt is followed by a sleep too.
RetryLeftInclusive(a, n) == a < n

\* lines 78, 86, 96, 106: if attempt < max_retries - 1
RetryLeft(a, n) == a < n - 1

\* Faulty variant of Backoff: delay *= 2.
BackoffDouble(d) == d * 2

\* lines 81, 89, 99, 110: delay *= 1.5
Backoff(d) == (d * 3) \div 2

\* Faulty variant of FinalException: an unexpected Exception on the final
\* attempt is re-raised to the caller.
FinalExceptionReraised(e) == IF e = "Exception" THEN Raised ELSE NoneValue

\* lines 90-92, 100-102, 111-115: the handlers' else branch, return None
FinalException(e) == NoneValue

\* Faulty variant of FreshDelay: the delay grown by an earlier call is kept.
FreshDelayCarried(d, carried) ==
    IF carried > d * DelayScale THEN carried ELSE d * DelayScale

\* line 48: delay is a parameter, bound to the argument at every call
\* (carried is the value an earlier call left in its own delay)
FreshDelay(d, carried) == d * DelayScale

ReturnLine(e) ==
    IF e = "JSONDecodeError" THEN 92 ELSE IF e = "ConnectionError" THEN 102 ELSE 115

(***************************************************************************)
(* get_analysis_with_retry                                                 *)
(***************************************************************************)
RetryInit ==
    /\ lpc = "ready"
    /\ close_price = 0
    /\ indicators = <<>>
    /\ metrics = [rating |-> 0]
    /\ scores = <<0, 0>>
    /\ selected = <<>>
    /\ projected = <<>>
    /\ levels = <<>>
    /\ apc = "idle"
    /\ metricsOutcome = [kind |-> "uncalled", value |-> <<>>]
    /\ metricsCalls = 0
    /\ levelsCalls = 0
    /\ aresult = [kind |-> "pending", value |-> <<>>]
    /\ history = <<>>
    /\ pc = "idle"
    /\ max_retries = 0
    /\ symbols = <<"BTC">>
    /\ delay0 = 1
    /\ attempt = 0
    /\ delay = DelayScale
    /\ analysis = Unbound
    /\ result = Pending
    /\ retLine = 0
    /\ calls = 0
    /\ sleeps = <<>>
    /\ outcomes = <<>>
    /\ DashIdle

\* A call of the function: the parameters are bound and the loop is entered.
Invoke(n, d, syms) ==
    /\ pc \in {"idle", "done"}
    /\ pc' = "loop"
    /\ max_retries' = n
    /\ symbols' = syms
    /\ delay0' = d
    /\ attempt' = 0
    /\ delay' = FreshDelay(d, delay)
    /\ analysis' = Unbound
    /\ result' = Pending
    /\ retLine' = 0
    /\ calls' = 0
    /\ sleeps' = <<>>
    /\ outcomes' = <<>>
    /\ UNCHANGED <<levelVars, analyzeVars, dashVars>>

\* One iteration of the loop body up to its sleep, continue or return.
Attempt(o) ==
    /\ pc = "loop"
    /\ LoopContinues(attempt, max_retries)
    /\ calls' = calls + 1
    /\ outcomes' = Append(outcomes, OutcomeKind(o, symbols))
    /\ IF o.exc = "none"
       THEN /\ analysis' = o.value
            /\ IF IsValid(o.value, symbols)
               THEN /\ pc' = "done"
                    /\ result' = o.value
                    /\ retLine' = 75
                    /\ attempt' = attempt
               ELSE IF RetryLeft(attempt, max_retries)
               THEN /\ pc' = "sleep"
                    /\ UNCHANGED <<result, retLine, attempt>>
               ELSE \* continue: back to the for head
                    /\ pc' = "loop"
                    /\ attempt' = attempt + 1
                    /\ UNCHANGED <<result, retLine>>
       ELSE /\ analysis' = analysis
            /\ IF RetryLeft(attempt, max_retries)
               THEN /\ pc' = "sleep"
                    /\ UNCHANGED <<result, retLine, attempt>>
               ELSE /\ pc' = "done"
                    /\ result' = FinalException(o.exc)
                    /\ retLine' = ReturnLine(o.exc)
                    /\ attempt' = attempt
    /\ UNCHANGED <<max_retries, symbols, delay0, delay, sleeps>>
    /\ UNCHANGED <<levelVars, analyzeVars, dashVars>>

\* time.sleep(delay); delay *= 1.5; then the next iteration.
Sleep ==
    /\ pc = "sleep"
    /\ sleeps' = Append(sleeps, delay)
    /\ delay' = Backoff(delay)
    /\ attempt' = attempt + 1
    /\ pc' = "loop"
    /\ UNCHANGED <<max_retries, symbols, delay0, analysis, result, retLine, calls, outcomes>>
    /\ UNCHANGED <<levelVars, analyzeVars, dashVars>>

\* line 117: the loop is exhausted, return None.
Exhausted ==
    /\ pc = "loop"
    /\ ~LoopContinues(attempt, max_retries)
    /\ pc' = "done"
    /\ result' = NoneValue
    /\ retLine' = 117
    /\ UNCHANGED <<max_retries, symbols, delay0, attempt, delay, analysis, calls,
                   sleeps, outcomes>>
    /\ UNCHANGED <<levelVars, analyzeVars, dashVars>>

RetryStep ==
    \/ \E o \in ProviderOutcomes : Attempt(o)
    \/ Sleep
    \/ Exhausted

RetryNext ==
    \/ \E n \in 0..MaxRetries, d \in 1..MaxDelay, syms \in SymbolLists : Invoke(n, d, syms)
    \/ RetryStep

RetrySpec == RetryInit /\ [][RetryNext]_vars

\* The function's own steps are taken when they can be: nothing suspends it but
\* its sleeps, which end.
FairRetrySpec == RetrySpec /\ WF_vars(RetryStep)

(***************************************************************************)
(* calculate_entry_exit_levels                                             *)
(*                                                                         *)
(* Indicator values and close_price are integers; every price the function *)
(* computes by a multiplication is held as price * Scale, which keeps the  *)
(* factors 1.002, 0.998, 0.97, 1.03, 0.99, 1.01, 1.05, 1.06, ... exact.    *)
(***************************************************************************)
Scale == 100000

\* Bound of the model: metrics['rating'] ranges over -MaxRating..MaxRating.
MaxRating == 2

\* p * (permille / 1000), for an indicator value or close_price p
Times(p, permille) == p * permille * (Scale \div 1000)

\* x * (pct / 100), for a computed price x (a multiple of 100 in the model)
Pct(x, pct) == (x \div 100) * pct

\* dict.get(key, default)
Get(d, key, default) == IF key \in DOMAIN d THEN d[key] ELSE default

Opt(cond, item) == IF cond THEN <<item>> ELSE <<>>

\* list.sort(key=...): a stable sort, keys[i] being the key of seq[i]
StableSort(seq, keys) ==
    LET n == Len(seq)
        rank(i) == 1 + Cardinality({j \in 1..n :
                        keys[j] < keys[i] \/ (keys[j] = keys[i] /\ j < i)})
    IN [p \in 1..n |-> seq[CHOOSE i \in 1..n : rank(i) = p]]

\* Faulty variant of SupportKey: the resistance key used for the supports.
SupportKeyFlipped(c, x) == x[2] - c

\* line 165: key=lambda x: close_price - x[1]
SupportKey(c, x) == c - x[2]

\* line 166: key=lambda x: x[1] - close_price
ResistanceKey(c, x) == x[2] - c

\* lines 145-155, 165
SupportLevels(c, bb_lower, sma20, ema50, ema200) ==
    LET cand == Opt(bb_lower > 0, <<"Bollinger Lower Band", bb_lower>>)
                \o Opt(sma20 > 0 /\ sma20 < c, <<"SMA20", sma20>>)
                \o Opt(ema50 > 0 /\ ema50 < c, <<"EMA50", ema50>>)
                \o Opt(ema200 > 0 /\ ema200 < c, <<"EMA200", ema200>>)
    IN StableSort(cand, [i \in 1..Len(cand) |-> SupportKey(c, cand[i])])

\* lines 146, 157-162, 166
ResistanceLevels(c, bb_upper, sma20, ema50) ==
    LET cand == Opt(bb_upper > 0, <<"Bollinger Upper Band", bb_upper>>)
                \o Opt(sma20 > 0 /\ sma20 > c, <<"SMA20", sma20>>)
                \o Opt(ema50 > 0 /\ ema50 > c, <<"EMA50", ema50>>)
    IN StableSort(cand, [i \in 1..Len(cand) |-> ResistanceKey(c, cand[i])])

\* Faulty variant of RatingScore: the strong thresholds made strict.
RatingScoreStrict(rating) ==
    IF rating > 2 THEN <<2, 0>>
    ELSE IF rating < -2 THEN <<0, 2>>
    ELSE IF rating > 0 THEN <<1, 0>>
    ELSE IF rating < 0 THEN <<0, 1>>
    ELSE <<0, 0>>

\* lines 175-182; a score is <<bullish, bearish>>
RatingScore(rating) ==
    IF rating >= 2 THEN <<2, 0>>
    ELSE IF rating <= -2 THEN <<0, 2>>
    ELSE IF rating > 0 THEN <<1, 0>>
    ELSE IF rating < 0 THEN <<0, 1>>
    ELSE <<0, 0>>

\* Faulty variant of RsiScore: every threshold comparison made inclusive.
RsiScoreInclusive(rsi) ==
    IF rsi <= 30 THEN <<2, 0>>
    ELSE IF rsi <= 40 THEN <<1, 0>>
    ELSE IF rsi >= 70 THEN <<0, 2>>
    ELSE IF rsi >= 60 THEN <<0, 1>>
    ELSE <<0, 0>>

\* lines 184-191
RsiScore(rsi) ==
    IF rsi < 30 THEN <<2, 0>>
    ELSE IF rsi < 40 THEN <<1, 0>>
    ELSE IF rsi > 70 THEN <<0, 2>>
    ELSE IF rsi > 60 THEN <<0, 1>>
    ELSE <<0, 0>>

\* lines 193-200
TrendScore(c, ema50, ema200) ==
    IF c > ema50 /\ c > ema200 THEN <<2, 0>>
    ELSE IF c > ema50 THEN <<1, 0>>
    ELSE IF c < ema50 /\ c < ema200 THEN <<0, 2>>
    ELSE IF c < ema50 THEN <<0, 1>>
    ELSE <<0, 0>>

\* lines 172-200: <<bullish_score, bearish_score>>
Scores(c, ind, m) ==
    LET r == RatingScore(m["rating"])
        s == RsiScore(Get(ind, "RSI", 0))
        t == TrendScore(c, Get(ind, "EMA50", 0), Get(ind, "EMA200", 0))
    IN <<r[1] + s[1] + t[1], r[2] + s[2] + t[2]>>

\* Faulty variant of BiasOf: a tie counts as BULLISH.
BiasOfTieBullish(bull, bear) ==
    IF bull >= bear THEN "BULLISH" ELSE IF bear > bull THEN "BEARISH" ELSE "NEUTRAL"

\* lines 203-204, 286-287, 369-370: the branch taken and the bias it records
BiasOf(bull, bear) ==
    IF bull > bear THEN "BULLISH" ELSE IF bear > bull THEN "BEARISH" ELSE "NEUTRAL"

NoLevel == [found |-> FALSE, label |-> "", price |-> 0]
Found(label, price) == [found |-> TRUE, label |-> label, price |-> price]

\* lines 212-228
BestSupport(c, sma20, bb_lower, support_levels) ==
    IF sma20 > 0 /\ sma20 < c THEN Found("SMA20", sma20)
    ELSE IF support_levels # <<>> /\ support_levels[1][2] < c
         THEN Found(support_levels[1][1], support_levels[1][2])
    ELSE IF bb_lower > 0 /\ bb_lower < c THEN Found("Lower Bollinger Band", bb_lower)
    ELSE NoLevel

\* lines 295-311
BestResistance(c, sma20, bb_upper, resistance_levels) ==
    IF sma20 > 0 /\ sma20 > c THEN Found("SMA20", sma20)
    ELSE IF resistance_levels # <<>> /\ resistance_levels[1][2] > c
         THEN Found(resistance_levels[1][1], resistance_levels[1][2])
    ELSE IF bb_upper > 0 /\ bb_upper > c THEN Found("Upper Bollinger Band", bb_upper)
    ELSE NoLevel

\* lines 218, 223, 228 with 232, 236: (close_price / support - 1) * 100 <= pct,
\* for support > 0 and pct 2.0 or 5.0, as the floats compute it.  A quotient
\* that is exactly 1.02 (1.05) rounds to the double 1.0200000000000000177...
\* (1.0500000000000000444...), so the distance computed is 2.0000000000000018
\* (5.000000000000004) and the test fails: <= on the floats is < on the ratios.
SupportWithin(c, support, pct) == (c - support) * 100 < pct * support

\* lines 301, 306, 311 with 315, 319: (resistance / close_price - 1) * 100 <= pct,
\* for resistance > 0, as the floats compute it (see SupportWithin); below a
\* negative close_price the quotient is negative and the test passes
ResistanceWithin(c, resistance, pct) ==
    IF c < 0 THEN TRUE ELSE (resistance - c) * 100 < pct * c

\* lines 301, 306, 311: the division by close_price raises ZeroDivisionError
BearishRaises(c, best) == best.found /\ c = 0

\* lines 208-246
BullishEntry(c, best) ==
    IF best.found /\ SupportWithin(c, best.price, 2)
    THEN [optimal |-> Times(best.price, 1002),
          description |-> <<"Enter near (only % away)", best.label>>]
    ELSE IF best.found /\ SupportWithin(c, best.price, 5)
    THEN [optimal |-> Times(c, 1000),
          description |-> <<"Enter at current price (or wait for dip to)", best.label>>]
    ELSE [optimal |-> Times(c, 1000),
          description |-> <<"Enter long at current price - don't wait for big dip", "">>]

\* lines 291-329
BearishEntry(c, best) ==
    IF best.found /\ ResistanceWithin(c, best.price, 2)
    THEN [optimal |-> Times(best.price, 998),
          description |-> <<"Enter near (only % away)", best.label>>]
    ELSE IF best.found /\ ResistanceWithin(c, best.price, 5)
    THEN [optimal |-> Times(c, 1000),
          description |-> <<"Enter at current price (or wait for bounce to)", best.label>>]
    ELSE [optimal |-> Times(c, 1000),
          description |-> <<"Enter short at current price - don't wait for rally", "">>]

\* Faulty variant of BullishStop: the stop is always taken from the entry.
BullishStopFromEntry(entry_level, support_levels) ==
    [level |-> Pct(entry_level, 95), description |-> <<"5% below entry level", "">>]

\* lines 248-255
BullishStop(entry_level, support_levels) ==
    IF support_levels # <<>>
    THEN [level |-> Times(support_levels[1][2], 970),
          description |-> <<"Below", support_levels[1][1]>>]
    ELSE [level |-> Pct(entry_level, 95), description |-> <<"5% below entry level", "">>]

\* Faulty variant of BearishStop: no stop level without a resistance.
BearishStopOnlyWithResistance(entry_level, resistance_levels) ==
    IF resistance_levels # <<>>
    THEN [level |-> Times(resistance_levels[1][2], 1030),
          description |-> <<"Above", resistance_levels[1][1]>>]
    ELSE <<>>

\* lines 331-338
BearishStop(entry_level, resistance_levels) ==
    IF resistance_levels # <<>>
    THEN [level |-> Times(resistance_levels[1][2], 1030),
          description |-> <<"Above", resistance_levels[1][1]>>]
    ELSE [level |-> Pct(entry_level, 105), description |-> <<"5% above entry level", "">>]

\* Faulty variant of BullishTakeProfit: target 1 stays at the resistance however
\* close to the entry it is.
BullishTakeProfitNoFloor(entry_level, resistance_levels) ==
    IF resistance_levels # <<>>
    THEN [target_1 |-> Times(resistance_levels[1][2], 990),
          target_1_desc |-> <<"Near", resistance_levels[1][1]>>,
          target_2 |-> IF Len(resistance_levels) > 1
                       THEN Times(resistance_levels[2][2], 990)
                       ELSE Pct(entry_level, 110),
          target_2_desc |-> IF Len(resistance_levels) > 1
                            THEN <<"Near", resistance_levels[2][1]>>
                            ELSE <<"10% above entry", "">>]
    ELSE [target_1 |-> Pct(entry_level, 106),
          target_1_desc |-> <<"6% above entry level", "">>,
          target_2 |-> Pct(entry_level, 112),
          target_2_desc |-> <<"12% above entry level", "">>]

\* Faulty variant of BullishTakeProfit: target 2 is taken from the first
\* resistance, not the second.
BullishTakeProfitSecondFromFirst(entry_level, resistance_levels) ==
    IF resistance_levels # <<>>
    THEN LET near == Times(resistance_levels[1][2], 990)
             close == near < Pct(entry_level, 103)
         IN [target_1 |-> IF close THEN Pct(entry_level, 105) ELSE near,
             target_1_desc |-> IF close
                               THEN <<"5% above entry (resistance too close)", "">>
                               ELSE <<"Near", resistance_levels[1][1]>>,
             target_2 |-> IF Len(resistance_levels) > 1
                          THEN Times(resistance_levels[1][2], 990)
                          ELSE Pct(entry_level, 110),
             target_2_desc |-> IF Len(resistance_levels) > 1
                               THEN <<"Near", resistance_levels[1][1]>>
                               ELSE <<"10% above entry", "">>]
    ELSE [target_1 |-> Pct(entry_level, 106),
          target_1_desc |-> <<"6% above entry level", "">>,
          target_2 |-> Pct(entry_level, 112),
          target_2_desc |-> <<"12% above entry level", "">>]

\* lines 257-283
BullishTakeProfit(entry_level, resistance_levels) ==
    IF resistance_levels # <<>>
    THEN LET near == Times(resistance_levels[1][2], 990)
             close == near < Pct(entry_level, 103)
         IN [target_1 |-> IF close THEN Pct(entry_level, 105) ELSE near,
             target_1_desc |-> IF close
                               THEN <<"5% above entry (resistance too close)", "">>
                               ELSE <<"Near", resistance_levels[1][1]>>,
             target_2 |-> IF Len(resistance_levels) > 1
                          THEN Times(resistance_levels[2][2], 990)
                          ELSE Pct(entry_level, 110),
             target_2_desc |-> IF Len(resistance_levels) > 1
                               THEN <<"Near", resistance_levels[2][1]>>
                               ELSE <<"10% above entry", "">>]
    ELSE [target_1 |-> Pct(entry_level, 106),
          target_1_desc |-> <<"6% above entry level", "">>,
          target_2 |-> Pct(entry_level, 112),
          target_2_desc |-> <<"12% above entry level", "">>]

\* Faulty variant of BearishTakeProfit: target 1 stays at the support however
\* close to the entry it is.
BearishTakeProfitNoFloor(entry_level, support_levels) ==
    IF support_levels # <<>>
    THEN [target_1 |-> Times(support_levels[1][2], 1010),
          target_1_desc |-> <<"Near", support_levels[1][1]>>,
          target_2 |-> IF Len(support_levels) > 1
                       THEN Times(support_levels[2][2], 1010)
                       ELSE Pct(entry_level, 90),
          target_2_desc |-> IF Len(support_levels) > 1
                            THEN <<"Near", support_levels[2][1]>>
                            ELSE <<"10% below entry", "">>]
    ELSE [target_1 |-> Pct(entry_level, 94),
          target_1_desc |-> <<"6% below entry level", "">>,
          target_2 |-> Pct(entry_level, 88),
          target_2_desc |-> <<"12% below entry level", "">>]

\* lines 340-366
BearishTakeProfit(entry_level, support_levels) ==
    IF support_levels # <<>>
    THEN LET near == Times(support_levels[1][2], 1010)
             close == near > Pct(entry_level, 97)
         IN [target_1 |-> IF close THEN Pct(entry_level, 95) ELSE near,
             target_1_desc |-> IF close
                               THEN <<"5% below entry (support too close)", "">>
                               ELSE <<"Near", support_levels[1][1]>>,
             target_2 |-> IF Len(support_levels) > 1
                          THEN Times(support_levels[2][2], 1010)
                          ELSE Pct(entry_level, 90),
             target_2_desc |-> IF Len(support_levels) > 1
                               THEN <<"Near", support_levels[2][1]>>
                               ELSE <<"10% below entry", "">>]
    ELSE [target_1 |-> Pct(entry_level, 94),
          target_1_desc |-> <<"6% below entry level", "">>,
          target_2 |-> Pct(entry_level, 88),
          target_2_desc |-> <<"12% below entry level", "">>]

\* Faulty variant of Validate: the entry block reads tp where it should read
\* entry and close_price (the target block copied and not fully renamed).
ValidateEntryReadsTarget(lv, c) ==
    IF /\ lv.bias \in {"BULLISH", "BEARISH"}
       /\ "optimal" \in DOMAIN lv.entry
       /\ "target_1" \in DOMAIN lv.take_profit
    THEN LET entry == lv.entry.optimal
             tp == lv.take_profit.target_1
             bull == lv.bias = "BULLISH"
             tpFix == IF bull THEN tp <= entry ELSE tp >= entry
             enFix == IF bull THEN tp > Times(c, 1010) ELSE tp < Times(c, 990)
         IN [lv EXCEPT
               !.take_profit =
                   IF tpFix
                   THEN [@ EXCEPT !.target_1 = Pct(entry, IF bull THEN 106 ELSE 94),
                                  !.target_1_desc = <<"6% from entry (auto-corrected)", "">>]
                   ELSE @,
               !.entry =
                   IF enFix
                   THEN [@ EXCEPT !.optimal = Pct(tp, IF bull THEN 99 ELSE 101),
                                  !.description = <<"Enter at current price (auto-corrected)", "">>]
                   ELSE @]
    ELSE lv

\* Faulty variant of Validate: an overridden target keeps its old description.
ValidateKeepsDescription(lv, c) ==
    IF /\ lv.bias \in {"BULLISH", "BEARISH"}
       /\ "optimal" \in DOMAIN lv.entry
       /\ "target_1" \in DOMAIN lv.take_profit
    THEN LET entry == lv.entry.optimal
             tp == lv.take_profit.target_1
             bull == lv.bias = "BULLISH"
             tpFix == IF bull THEN tp <= entry ELSE tp >= entry
             enFix == IF bull THEN entry > Times(c, 1010) ELSE entry < Times(c, 990)
         IN [lv EXCEPT
               !.take_profit =
                   IF tpFix
                   THEN [@ EXCEPT !.target_1 = Pct(entry, IF bull THEN 106 ELSE 94)]
                   ELSE @,
               !.entry =
                   IF enFix
                   THEN [@ EXCEPT !.optimal = Times(c, IF bull THEN 990 ELSE 1010),
                                  !.description =
                                      <<IF bull
                                        THEN "Enter at current price or slight pullback (auto-corrected)"
                                        ELSE "Enter at current price or slight bounce (auto-corrected)",
                                        "">>]
                   ELSE @]
    ELSE lv

\* lines 373-408: the validation of the projected levels
Validate(lv, c) ==
    IF /\ lv.bias = "BULLISH"
       /\ "optimal" \in DOMAIN lv.entry
       /\ "target_1" \in DOMAIN lv.take_profit
    THEN LET entry == lv.entry.optimal
             tp == lv.take_profit.target_1
         IN [lv EXCEPT
               !.take_profit =
                   IF tp <= entry
                   THEN [@ EXCEPT !.target_1 = Pct(entry, 106),
                                  !.target_1_desc = <<"6% above entry (auto-corrected)", "">>]
                   ELSE @,
               !.entry =
                   IF entry > Times(c, 1010)
                   THEN [@ EXCEPT !.optimal = Times(c, 990),
                                  !.description =
                                      <<"Enter at current price or slight pullback (auto-corrected)", "">>]
                   ELSE @]
    ELSE IF /\ lv.bias = "BEARISH"
            /\ "optimal" \in DOMAIN lv.entry
            /\ "target_1" \in DOMAIN lv.take_profit
    THEN LET entry == lv.entry.optimal
             tp == lv.take_profit.target_1
         IN [lv EXCEPT
               !.take_profit =
                   IF tp >= entry
                   THEN [@ EXCEPT !.target_1 = Pct(entry, 94),
                                  !.target_1_desc = <<"6% below entry (auto-corrected)", "">>]
                   ELSE @,
               !.entry =
                   IF entry < Times(c, 990)
                   THEN [@ EXCEPT !.optimal = Times(c, 1010),
                                  !.description =
                                      <<"Enter at current price or slight bounce (auto-corrected)", "">>]
                   ELSE @]
    ELSE lv

RaisedLevels == [raised |-> TRUE, exc |-> "ZeroDivisionError"]

\* lines 127-371: the levels as they stand before the validation
ProjectLevels(c, ind, m) ==
    LET bb_upper == Get(ind, "BB.upper", 0)
        bb_lower == Get(ind, "BB.lower", 0)
        sma20 == Get(ind, "SMA20", 0)
        ema50 == Get(ind, "EMA50", 0)
        ema200 == Get(ind, "EMA200", 0)
        support_levels == SupportLevels(c, bb_lower, sma20, ema50, ema200)
        resistance_levels == ResistanceLevels(c, bb_upper, sma20, ema50)
        sc == Scores(c, ind, m)
        bias == BiasOf(sc[1], sc[2])
        Levels(entry, stop_loss, take_profit) ==
            [raised |-> FALSE,
             current_price |-> c,
             support_levels |-> support_levels,
             resistance_levels |-> resistance_levels,
             bias |-> bias,
             entry |-> entry,
             stop_loss |-> stop_loss,
             take_profit |-> take_profit]
    IN IF bias = "BULLISH"
       THEN LET best_support == BestSupport(c, sma20, bb_lower, support_levels)
                entry == BullishEntry(c, best_support)
            IN Levels(entry,
                      BullishStop(entry.optimal, support_levels),
                      BullishTakeProfit(entry.optimal, resistance_levels))
       ELSE IF bias = "BEARISH"
       THEN LET best_resistance == BestResistance(c, sma20, bb_upper, resistance_levels)
                entry == BearishEntry(c, best_resistance)
            IN IF BearishRaises(c, best_resistance)
               THEN RaisedLevels
               ELSE Levels(entry,
                           BearishStop(entry.optimal, resistance_levels),
                           BearishTakeProfit(entry.optimal, support_levels))
       ELSE Levels([description |-> <<"No clear directional bias - wait for confirmation", "">>],
                   <<>>, <<>>)

\* lines 212-228, 295-311: the local best_support (BULLISH branch) or
\* best_resistance (BEARISH branch); no such local in the NEUTRAL branch
SelectedLevel(c, ind, m) ==
    LET bb_upper == Get(ind, "BB.upper", 0)
        bb_lower == Get(ind, "BB.lower", 0)
        sma20 == Get(ind, "SMA20", 0)
        ema50 == Get(ind, "EMA50", 0)
        ema200 == Get(ind, "EMA200", 0)
        sc == Scores(c, ind, m)
        bias == BiasOf(sc[1], sc[2])
    IN IF bias = "BULLISH"
       THEN BestSupport(c, sma20, bb_lower,
                        SupportLevels(c, bb_lower, sma20, ema50, ema200))
       ELSE IF bias = "BEARISH"
       THEN BestResistance(c, sma20, bb_upper,
                           ResistanceLevels(c, bb_upper, sma20, ema50))
       ELSE NoLevel

\* lines 120-410
calculate_entry_exit_levels(c, ind, m) ==
    LET lv == ProjectLevels(c, ind, m)
    IN IF lv.raised THEN lv ELSE Validate(lv, c)

(***************************************************************************)
(* The inputs the function is applied to.  A key whose value is 0 may be   *)
(* present or missing from the dict (sparse snapshots drop the zero keys). *)
(***************************************************************************)
ClosePrices == {0, 100}
BBUpperValues == {0, 99, 101, 110}
BBLowerValues == {0, 90, 99, 101}
SMA20Values == {0, 96, 99, 100, 101, 104}
EMA50Values == {0, 96, 99, 100, 101}
EMA200Values == {0, 90, 99, 101}
RSIValues == {0, 30, 40, 60, 70, 71}
Ratings == (0 - MaxRating)..MaxRating

IndicatorKeys == {"BB.upper", "BB.lower", "SMA20", "EMA50", "EMA200", "RSI"}

Snapshot(bu, bl, s20, e50, e200, r, sparse) ==
    LET full == [k \in IndicatorKeys |->
                    CASE k = "BB.upper" -> bu
                      [] k = "BB.lower" -> bl
                      [] k = "SMA20" -> s20
                      [] k = "EMA50" -> e50
                      [] k = "EMA200" -> e200
                      [] OTHER -> r]
    IN IF sparse THEN [k \in {x \in IndicatorKeys : full[x] # 0} |-> full[k]] ELSE full

Snapshots ==
    {Snapshot(bu, bl, s20, e50, e200, r, sparse) :
        bu \in BBUpperValues, bl \in BBLowerValues, s20 \in SMA20Values,
        e50 \in EMA50Values, e200 \in EMA200Values, r \in RSIValues, sparse \in BOOLEAN}

\* Dollars per price unit of the model.
PriceUnit == 500

\* Scenario A of the specification, section 8, in price units: close 50000,
\* BB.upper 52000, BB.lower 48000, SMA20 49500, EMA50 49000, EMA200 47000.
ScenarioA ==
    [c |-> 50000 \div PriceUnit,
     ind |-> Snapshot(52000 \div PriceUnit, 48000 \div PriceUnit, 49500 \div PriceUnit,
                      49000 \div PriceUnit, 47000 \div PriceUnit, 25, FALSE),
     m |-> [rating |-> 2]]

\* Scenario E of the specification, section 8: a BULLISH setup whose nearest
\* resistance R gives 0.99 x R = 1.02 x entry (entry 99, R 102).
ScenarioE ==
    [c |-> 99, ind |-> Snapshot(102, 0, 0, 0, 0, 25, TRUE), m |-> [rating |-> 2]]

\* Inputs on and around the 2% and 5% distances of the entry rule: SMA20 alone,
\* below or above the price.
EdgeClosePrices == {100, 102, 105}
EdgeSMA20Values == {95, 98, 100, 102, 105}
EdgeRSIValues == {25, 71}
EdgeInputs ==
    {[c |-> c, ind |-> Snapshot(0, 0, s20, 0, 0, r, TRUE), m |-> [rating |-> rt]] :
        c \in EdgeClosePrices, s20 \in EdgeSMA20Values, r \in EdgeRSIValues,
        rt \in Ratings}

\* Inputs with a Bollinger band far on the other side of the price: a lower
\* band above it, an upper band below it.
FarBandInputs ==
    {[c |-> 100, ind |-> Snapshot(bu, bl, 0, 0, 0, r, TRUE), m |-> [rating |-> rt]] :
        bu \in {0, 90}, bl \in {0, 110}, r \in EdgeRSIValues, rt \in Ratings}

ScenarioInputs == {ScenarioA, ScenarioE} \cup EdgeInputs \cup FarBandInputs

\* The inputs are drawn from the grid or from the scenarios.
LevelsInit ==
    /\ lpc = "ready"
    /\ \/ /\ close_price \in ClosePrices
          /\ indicators \in Snapshots
          /\ metrics \in {[rating |-> r] : r \in Ratings}
       \/ \E in \in ScenarioInputs :
             /\ close_price = in.c
             /\ indicators = in.ind
             /\ metrics = in.m
    /\ scores = <<0, 0>>
    /\ selected = <<>>
    /\ projected = <<>>
    /\ levels = <<>>
    /\ apc = "idle"
    /\ metricsOutcome = [kind |-> "uncalled", value |-> <<>>]
    /\ metricsCalls = 0
    /\ levelsCalls = 0
    /\ aresult = [kind |-> "pending", value |-> <<>>]
    /\ history = <<>>
    /\ pc = "idle"
    /\ max_retries = 0
    /\ symbols = <<"BTC">>
    /\ delay0 = 1
    /\ attempt = 0
    /\ delay = DelayScale
    /\ analysis = Unbound
    /\ result = Pending
    /\ retLine = 0
    /\ calls = 0
    /\ sleeps = <<>>
    /\ outcomes = <<>>
    /\ DashIdle

\* One call of calculate_entry_exit_levels on the drawn inputs.
Call ==
    /\ lpc = "ready"
    /\ lpc' = "returned"
    /\ scores' = Scores(close_price, indicators, metrics)
    /\ selected' = SelectedLevel(close_price, indicators, metrics)
    /\ projected' = ProjectLevels(close_price, indicators, metrics)
    /\ levels' = calculate_entry_exit_levels(close_price, indicators, metrics)
    /\ UNCHANGED <<close_price, indicators, metrics>>
    /\ UNCHANGED <<retryVars, analyzeVars, dashVars>>

LevelsNext == Call

LevelsSpec == LevelsInit /\ [][LevelsNext]_vars

(***************************************************************************)
(* The function accepts any number as close_price.  SignedLevelsSpec       *)
(* applies it to a close price below zero as well, where the entry test of *)
(* the validation (lines 386, 404) fails.                                  *)
(***************************************************************************)
SignedClosePrices == {-100, 100}
SignedSnapshots ==
    {Snapshot(bu, bl, s20, e50, 0, r, TRUE) :
        bu \in {0, 101}, bl \in {0, 99}, s20 \in {0, 99, 101}, e50 \in {0, 99, 101},
        r \in {25, 50, 75}}

SignedLevelsInit ==
    /\ lpc = "ready"
    /\ close_price \in SignedClosePrices
    /\ indicators \in SignedSnapshots
    /\ metrics \in {[rating |-> r] : r \in Ratings}
    /\ scores = <<0, 0>>
    /\ selected = <<>>
    /\ projected = <<>>
    /\ levels = <<>>
    /\ apc = "idle"
    /\ metricsOutcome = [kind |-> "uncalled", value |-> <<>>]
    /\ metricsCalls = 0
    /\ levelsCalls = 0
    /\ aresult = [kind |-> "pending", value |-> <<>>]
    /\ history = <<>>
    /\ pc = "idle"
    /\ max_retries = 0
    /\ symbols = <<"BTC">>
    /\ delay0 = 1
    /\ attempt = 0
    /\ delay = DelayScale
    /\ analysis = Unbound
    /\ result = Pending
    /\ retLine = 0
    /\ calls = 0
    /\ sleeps = <<>>
    /\ outcomes = <<>>
    /\ DashIdle

SignedLevelsSpec == SignedLevelsInit /\ [][LevelsNext]_vars

(***************************************************************************)
(* analyze_btc_daily                                                       *)
(*                                                                         *)
(* The call fetches through get_analysis_with_retry (the actions above,    *)
(* with the default max_retries and delay), then runs the rest of its body *)
(* (lines 431-938) on the snapshot held by the response and on whatever    *)
(* compute_metrics, an imported function, returns or raises.               *)
(***************************************************************************)
Symbol == "BTC"

\* line 48: the defaults of max_retries and delay, which line 429 relies on
DefaultMaxRetries == 3
DefaultDelay == 2

NotReturned == [kind |-> "pending", value |-> <<>>]
NoneResult == [kind |-> "None", value |-> <<>>]
Escaped == [kind |-> "raised", value |-> <<>>]

\* compute_metrics: the keys of the dict the body reads (lines 481-487, 904-918)
MetricsKeys == {"change", "rating", "signal", "bbw"}
FullMetrics(r) == [k \in MetricsKeys |-> IF k = "rating" THEN r ELSE 0]

\* What compute_metrics can do: return a dict with every key, a dict lacking
\* keys, an empty dict or None, or raise.
MetricsOutcomes ==
    {[kind |-> "value", value |-> FullMetrics(r)] : r \in Ratings}
        \cup {[kind |-> "value", value |-> [rating |-> 0]],
              [kind |-> "value", value |-> <<>>],
              [kind |-> "none", value |-> <<>>],
              [kind |-> "raised", value |-> <<>>]}
NoMetrics == [kind |-> "uncalled", value |-> <<>>]

\* line 431: if not analysis
FetchFailed(a) == ~Truthy(a)

\* line 441: symbol not in analysis or analysis[symbol] is None
NoSymbolData(a) == Symbol \notin DOMAIN a.entries \/ a.entries[Symbol] = "NULL"

\* line 450: if not metrics
MetricsFalsy(mo) == mo.kind = "none" \/ DOMAIN mo.value = {}

\* lines 578-583, 585-590, 592-597, 599-604: one signal, <<bullish, bearish>>
RatingSignal(rating) ==
    IF rating >= 2 THEN <<1, 0>> ELSE IF rating <= -2 THEN <<0, 1>> ELSE <<0, 0>>
RsiSignal(rsi) ==
    IF rsi < 30 THEN <<1, 0>> ELSE IF rsi > 70 THEN <<0, 1>> ELSE <<0, 0>>

\* Faulty variant of MacdSignal: a zero divergence counts as bullish.
MacdSignalInclusive(macd_div) == IF macd_div >= 0 THEN <<1, 0>> ELSE <<0, 1>>

MacdSignal(macd_div) == IF macd_div > 0 THEN <<1, 0>> ELSE <<0, 1>>
PriceSignal(c, ema50) == IF c > ema50 THEN <<1, 0>> ELSE <<0, 1>>

\* lines 546, 574-604: <<bullish_signals, bearish_signals>>
Signals(ind, m) ==
    LET a == RatingSignal(m["rating"])
        b == RsiSignal(Get(ind, "RSI", 0))
        c == MacdSignal(Get(ind, "MACD.macd", 0) - Get(ind, "MACD.signal", 0))
        d == PriceSignal(Get(ind, "close", 0), Get(ind, "EMA50", 0))
    IN <<a[1] + b[1] + c[1] + d[1], a[2] + b[2] + c[2] + d[2]>>

\* lines 630-644: <<recommendation, action>>; a label is held without the
\* coloured glyph that precedes it in the source string
Recommend(bull, bear) ==
    IF bull > bear + 1 THEN <<"STRONG BUY", "LONG">>
    ELSE IF bull > bear THEN <<"BUY", "LONG">>
    ELSE IF bear > bull + 1 THEN <<"STRONG SELL", "SHORT">>
    ELSE IF bear > bull THEN <<"SELL", "SHORT">>
    ELSE <<"NEUTRAL/HOLD", "WAIT">>

\* lines 730-749, 808-823: risk / entry_price with entry_price = 0
RiskRaises(c, lv, action) ==
    /\ "level" \in DOMAIN lv.stop_loss
    /\ "target_1" \in DOMAIN lv.take_profit
    /\ LET entry_price == IF "optimal" \in DOMAIN lv.entry
                          THEN lv.entry.optimal ELSE c * Scale
           risk == IF action = "LONG"
                   THEN entry_price - lv.stop_loss.level
                   ELSE lv.stop_loss.level - entry_price
       IN risk > 0 /\ entry_price = 0

\* lines 656-873: the display of a non-NEUTRAL plan raises ZeroDivisionError
\* when it divides by close_price = 0 (666, 672, 680, 704, 718) or by
\* entry_price = 0, and KeyError when it reads a missing key (861-871)
DisplayRaises(c, lv, action) ==
    /\ lv.bias # "NEUTRAL"
    /\ \/ /\ c = 0
          /\ \/ lv.support_levels # <<>>
             \/ lv.resistance_levels # <<>>
             \/ "optimal" \in DOMAIN lv.entry
             \/ "level" \in DOMAIN lv.stop_loss
             \/ "target_1" \in DOMAIN lv.take_profit
       \/ RiskRaises(c, lv, action)
       \/ "optimal" \notin DOMAIN lv.entry
       \/ "level" \notin DOMAIN lv.stop_loss

\* lines 649-873: how far the body gets once the levels lv are back
LevelsStage(c, lv, action) ==
    IF lv.raised THEN "levelsraised"                             \* 649
    ELSE IF DisplayRaises(c, lv, action) THEN "displayraised"    \* 656-873
    ELSE "assembled"                                             \* 902

\* lines 630-644 on the tally sig
ActionOf(sig) == Recommend(sig[1], sig[2])[2]

\* How far the body gets once the fetch has handed back a.
Stage(a, snap, mo) ==
    IF a.kind = "raised" THEN "escaped"                          \* 429, outside the try
    ELSE IF FetchFailed(a) THEN "nofetch"                        \* 431-438
    ELSE IF NoSymbolData(a) THEN "nosymbol"                      \* 441-443
    ELSE IF mo.kind = "raised" THEN "metricsraised"              \* 449
    ELSE IF MetricsFalsy(mo) THEN "nometrics"                    \* 450-452
    ELSE IF ~(MetricsKeys \subseteq DOMAIN mo.value) THEN "keyerror"   \* 481
    ELSE LevelsStage(Get(snap, "close", 0),
                     calculate_entry_exit_levels(Get(snap, "close", 0), snap, mo.value),
                     ActionOf(Signals(snap, mo.value)))

\* Faulty variant of MetricsInvoked: compute_metrics called before the checks.
MetricsInvokedAlways(stage) == TRUE

\* line 449 comes after the returns of lines 438 and 443
MetricsInvoked(stage) == stage \notin {"escaped", "nofetch", "nosymbol"}

\* line 649 comes after the return of line 452 and the reads of lines 481-487
LevelsInvoked(stage) == stage \in {"levelsraised", "displayraised", "assembled"}

\* Faulty variant of ExceptHandler: the handler misses ZeroDivisionError and
\* KeyError raised by the display.
ExceptHandlerNarrow(stage) == IF stage = "displayraised" THEN Escaped ELSE NoneResult

\* lines 934-938: except Exception ... return None
ExceptHandler(stage) == NoneResult

\* lines 902-932: the record returned; sig is the tally and rec the
\* recommendation and action drawn from it (signal_details is held by its length)
ResultFields(snap, m, lv, sig, rec) ==
    [price |-> Get(snap, "close", 0),
     change |-> m["change"],
     rating |-> m["rating"],
     recommendation |-> rec[1],
     action |-> rec[2],
     levels |-> lv,
     open |-> Get(snap, "open", 0),
     high |-> Get(snap, "high", 0),
     low |-> Get(snap, "low", 0),
     volume |-> Get(snap, "volume", 0),
     bb_upper |-> Get(snap, "BB.upper", 0),
     bb_lower |-> Get(snap, "BB.lower", 0),
     sma20 |-> Get(snap, "SMA20", 0),
     bbw |-> m["bbw"],
     rsi |-> Get(snap, "RSI", 0),
     ema50 |-> Get(snap, "EMA50", 0),
     ema200 |-> Get(snap, "EMA200", 0),
     macd |-> Get(snap, "MACD.macd", 0),
     macd_signal |-> Get(snap, "MACD.signal", 0),
     adx |-> Get(snap, "ADX", 0),
     stoch_k |-> Get(snap, "Stoch.K", 0),
     stoch_d |-> Get(snap, "Stoch.D", 0),
     bullish_signals |-> sig[1],
     bearish_signals |-> sig[2],
     signal_details |-> sig[1] + sig[2]]

RecommendFor(sig) == Recommend(sig[1], sig[2])

ResultRecord(snap, m, lv, sig) == ResultFields(snap, m, lv, sig, RecommendFor(sig))

\* lines 429-938: what the call hands to its caller
Outcome(stage, snap, mo) ==
    IF stage = "escaped" THEN Escaped
    ELSE IF stage \in {"nofetch", "nosymbol", "nometrics"} THEN NoneResult
    ELSE IF stage = "assembled"
    THEN [kind |-> "record",
          value |-> ResultRecord(snap, mo.value,
                       calculate_entry_exit_levels(Get(snap, "close", 0), snap, mo.value),
                       Signals(snap, mo.value))]
    ELSE ExceptHandler(stage)

\* The snapshots the response can hold: data.indicators (line 446).  A key
\* whose value is 0 may be present or missing.
AnalyzeKeys == {"close", "MACD.macd", "MACD.signal", "RSI", "EMA50", "EMA200", "SMA20"}
AnalyzeClosePrices == {0, 100}
AnalyzeMacdPairs == {<<1, 0>>, <<0, 0>>, <<0, 1>>}
AnalyzeRSIValues == {25, 65, 75}
AnalyzeEMA50Values == {99, 101}
AnalyzeEMA200Values == {0, 101}
AnalyzeSMA20Values == {0, 99}

AnalyzeSnapshot(c, macd, rsi, e50, e200, s20, sparse) ==
    LET full == [k \in AnalyzeKeys |->
                    CASE k = "close" -> c
                      [] k = "MACD.macd" -> macd[1]
                      [] k = "MACD.signal" -> macd[2]
                      [] k = "RSI" -> rsi
                      [] k = "EMA50" -> e50
                      [] k = "EMA200" -> e200
                      [] OTHER -> s20]
    IN IF sparse THEN [k \in {x \in AnalyzeKeys : full[x] # 0} |-> full[k]] ELSE full

AnalyzeSnapshots ==
    {AnalyzeSnapshot(c, macd, rsi, e50, e200, s20, sparse) :
        c \in AnalyzeClosePrices, macd \in AnalyzeMacdPairs, rsi \in AnalyzeRSIValues,
        e50 \in AnalyzeEMA50Values, e200 \in AnalyzeEMA200Values,
        s20 \in AnalyzeSMA20Values, sparse \in BOOLEAN}

\* The provider outcomes for the one symbol requested, and a response for
\* another symbol.
AnalyzeOutcomes ==
    {o \in ProviderOutcomes :
        \/ "ETH" \notin DOMAIN o.value.entries
        \/ o.value.entries = [s \in {"ETH"} |-> "data"]}

AnalyzeInit ==
    /\ apc = "idle"
    /\ metricsOutcome = NoMetrics
    /\ metricsCalls = 0
    /\ levelsCalls = 0
    /\ aresult = NotReturned
    /\ history = <<>>
    /\ lpc = "ready"
    /\ close_price = 0
    /\ indicators = <<>>
    /\ metrics = [rating |-> 0]
    /\ scores = <<0, 0>>
    /\ selected = <<>>
    /\ projected = <<>>
    /\ levels = <<>>
    /\ pc = "idle"
    /\ max_retries = 0
    /\ symbols = <<"BTC">>
    /\ delay0 = 1
    /\ attempt = 0
    /\ delay = DelayScale
    /\ analysis = Unbound
    /\ result = Pending
    /\ retLine = 0
    /\ calls = 0
    /\ sleeps = <<>>
    /\ outcomes = <<>>
    /\ DashIdle

\* lines 413-429: a call of analyze_btc_daily, up to its entry into
\* get_analysis_with_retry(screener, timeframe, [symbol]); every local is fresh.
\* At most limit calls are made one after the other.
AnalyzeStart(limit) ==
    /\ apc \in {"idle", "done"}
    /\ Len(history) < limit
    /\ apc' = "fetching"
    /\ aresult' = NotReturned
    /\ metricsOutcome' = NoMetrics
    /\ metricsCalls' = 0
    /\ levelsCalls' = 0
    /\ pc' = "loop"
    /\ max_retries' = DefaultMaxRetries
    /\ symbols' = <<Symbol>>
    /\ delay0' = DefaultDelay
    /\ attempt' = 0
    /\ delay' = FreshDelay(DefaultDelay, delay)
    /\ analysis' = Unbound
    /\ result' = Pending
    /\ retLine' = 0
    /\ calls' = 0
    /\ sleeps' = <<>>
    /\ outcomes' = <<>>
    /\ lpc' = "ready"
    /\ close_price' = 0
    /\ indicators' = <<>>
    /\ metrics' = [rating |-> 0]
    /\ scores' = <<0, 0>>
    /\ selected' = <<>>
    /\ projected' = <<>>
    /\ levels' = <<>>
    /\ UNCHANGED <<history, dashVars>>

\* The fetch handed back nothing the body can use: the call ends before it
\* reads the snapshot (lines 431-443).
FetchUnusable(a) ==
    IF a.kind = "raised" \/ FetchFailed(a) THEN TRUE ELSE NoSymbolData(a)

\* lines 431-443: the body after a fetch that handed back no data.
ReturnNoData ==
    /\ apc = "fetching"
    /\ pc = "done"
    /\ FetchUnusable(result)
    /\ LET Finish(stage, out) ==
               /\ apc' = "done"
               /\ aresult' = out
               /\ metricsCalls' = IF MetricsInvoked(stage) THEN 1 ELSE 0
               /\ levelsCalls' = IF LevelsInvoked(stage) THEN 1 ELSE 0
               /\ history' = Append(history,
                                    [outcomes |-> outcomes,
                                     sleeps |-> sleeps,
                                     indicators |-> indicators,
                                     metricsOutcome |-> metricsOutcome,
                                     levels |-> levels,
                                     result |-> out])
       IN Finish(Stage(result, <<>>, NoMetrics),
                 Outcome(Stage(result, <<>>, NoMetrics), <<>>, NoMetrics))
    /\ UNCHANGED metricsOutcome
    /\ UNCHANGED <<retryVars, levelVars, dashVars>>

\* lines 445-938: the body after a fetch that handed back data, for the
\* snapshot snap held by the response and the outcome mo of compute_metrics.
Process(snap, mo) ==
    /\ apc = "fetching"
    /\ pc = "done"
    /\ ~FetchUnusable(result)
    /\ LET Finish(stage, m, l, c, out, lv) ==
               /\ apc' = "done"
               /\ aresult' = out
               /\ metricsCalls' = IF m THEN 1 ELSE 0
               /\ levelsCalls' = IF l THEN 1 ELSE 0
               /\ indicators' = IF m THEN snap ELSE indicators
               /\ metricsOutcome' = IF m THEN mo ELSE NoMetrics
               /\ metrics' = IF l THEN mo.value ELSE metrics
               /\ close_price' = IF l THEN c ELSE close_price
               /\ lpc' = IF l THEN "returned" ELSE lpc
               /\ scores' = IF l THEN Scores(c, snap, mo.value) ELSE scores
               /\ selected' = IF l THEN SelectedLevel(c, snap, mo.value) ELSE selected
               /\ projected' = IF l THEN ProjectLevels(c, snap, mo.value) ELSE projected
               /\ levels' = lv
               /\ history' = Append(history,
                                    [outcomes |-> outcomes,
                                     sleeps |-> sleeps,
                                     indicators |-> IF m THEN snap ELSE indicators,
                                     metricsOutcome |-> IF m THEN mo ELSE NoMetrics,
                                     levels |-> lv,
                                     result |-> out])
           Reached(stage) ==
               Finish(stage, MetricsInvoked(stage), LevelsInvoked(stage),
                      Get(snap, "close", 0), Outcome(stage, snap, mo),
                      IF LevelsInvoked(stage)
                      THEN calculate_entry_exit_levels(Get(snap, "close", 0), snap, mo.value)
                      ELSE levels)
       IN Reached(Stage(result, snap, mo))
    /\ UNCHANGED <<retryVars, dashVars>>

AnalyzeNext ==
    \/ AnalyzeStart(1)
    \/ \E o \in AnalyzeOutcomes : Attempt(o)
    \/ Sleep
    \/ Exhausted
    \/ ReturnNoData
    \/ \E snap \in AnalyzeSnapshots, mo \in MetricsOutcomes : Process(snap, mo)

AnalyzeSpec == AnalyzeInit /\ [][AnalyzeNext]_vars

(***************************************************************************)
(* Calls of analyze_btc_daily one after the other, on a few inputs.        *)
(***************************************************************************)
\* Bound of the model: the number of consecutive calls.
MaxRuns == 3

RepeatOutcomes ==
    {o \in ProviderOutcomes :
        \/ o.exc = "none" /\ o.value = NoneValue
        \/ o.value.entries = [s \in {"BTC"} |-> "data"]}

RepeatSnapshots ==
    {AnalyzeSnapshot(100, <<1, 0>>, 25, 99, 0, 99, TRUE),
     AnalyzeSnapshot(100, <<0, 1>>, 75, 101, 101, 0, TRUE),
     AnalyzeSnapshot(0, <<0, 0>>, 65, 99, 0, 0, TRUE)}

RepeatMetrics ==
    {[kind |-> "value", value |-> FullMetrics(2)], [kind |-> "value", value |-> <<>>]}

RepeatNext ==
    \/ AnalyzeStart(MaxRuns)
    \/ \E o \in RepeatOutcomes : Attempt(o)
    \/ Sleep
    \/ Exhausted
    \/ ReturnNoData
    \/ \E snap \in RepeatSnapshots, mo \in RepeatMetrics : Process(snap, mo)

RepeatSpec == AnalyzeInit /\ [][RepeatNext]_vars

(***************************************************************************)
(* Claims about get_analysis_with_retry                                    *)
(***************************************************************************)
Last(seq) == seq[Len(seq)]

\* A response that holds data for the requested symbol, stated on the value itself.
HoldsData(a, syms) ==
    /\ a.kind = "dict"
    /\ syms[1] \in DOMAIN a.entries
    /\ a.entries[syms[1]] = "data"

NoValidOutcome == \A i \in 1..Len(outcomes) : outcomes[i] # "valid"

\* C1: whatever the provider outcomes, an invocation with max_retries = N makes
\* at most N provider calls, and every invocation that has started returns.
C1_AtMostNCallsAndTerminates ==
    /\ [](calls <= max_retries)
    /\ (pc \in {"loop", "sleep"}) ~> (pc = "done")

C1_Witness ==
    /\ pc = "done"
    /\ max_retries = 3
    /\ calls = 3
    /\ outcomes = <<"JSONDecodeError", "emptydict", "ConnectionError">>

\* C2: the call returns on the first attempt whose response holds a non-None
\* entry for symbols[0]: the value returned is that response, no provider call
\* and no sleep follows it; a response that is None, empty, lacks the symbol or
\* maps it to None is never returned as a success.
C2_ReturnsFirstValidResponse ==
    /\ \A i \in 1..(Len(outcomes) - 1) : outcomes[i] # "valid"
    /\ (outcomes # <<>> /\ Last(outcomes) = "valid") =>
          /\ pc = "done"
          /\ result = analysis
          /\ HoldsData(result, symbols)
          /\ retLine = 75
          /\ calls = Len(outcomes)
          /\ Len(sleeps) = Len(outcomes) - 1
    /\ HoldsData(analysis, symbols) => (pc = "done" /\ result = analysis)
    /\ result.kind = "dict" => HoldsData(result, symbols)

C2_Witness ==
    /\ pc = "done"
    /\ outcomes = <<"symnone", "valid">>
    /\ symbols = <<"ETH", "BTC">>
    /\ result = [kind |-> "dict", entries |-> [s \in {"ETH"} |-> "data"]]
    /\ calls = 2
    /\ Len(sleeps) = 1

\* C3: when no attempt succeeds, whatever the mix of failures, the call returns
\* None and no exception reaches the caller; an Exception on the final attempt
\* is not retried and ends the call with None.
C3_ExhaustionReturnsNone ==
    /\ result.kind # "raised"
    /\ (pc = "done" /\ NoValidOutcome) =>
          /\ result = NoneValue
          /\ calls = max_retries
    /\ (outcomes # <<>> /\ Len(outcomes) = max_retries /\ Last(outcomes) \in Exceptions) =>
          /\ pc = "done"
          /\ result = NoneValue
          /\ retLine = ReturnLine(Last(outcomes))

C3_Witness ==
    /\ pc = "done"
    /\ max_retries = 3
    /\ outcomes = <<"none", "JSONDecodeError", "Exception">>
    /\ result = NoneValue
    /\ retLine = 115

\* C4: the k-th sleep of an invocation lasts delay x 1.5^(k-1), whatever kinds
\* of failure came before it; Scenario C: max_retries = 3, delay = 2 and the
\* responses {symbol: None}, {symbol: None}, valid give the valid data after
\* exactly two sleeps, of 2 s then 3 s.
C4_BackoffSchedule ==
    /\ \A k \in 1..Len(sleeps) :
          sleeps[k] * Pow(2, k - 1) = delay0 * DelayScale * Pow(3, k - 1)
    /\ (max_retries = 3 /\ delay0 = 2 /\ outcomes = <<"symnone", "symnone", "valid">>) =>
          /\ pc = "done"
          /\ result = analysis
          /\ HoldsData(result, symbols)
          /\ sleeps = <<2 * DelayScale, 3 * DelayScale>>

C4_Witness ==
    /\ pc = "done"
    /\ max_retries = 3
    /\ delay0 = 2
    /\ outcomes = <<"symnone", "symnone", "valid">>
    /\ sleeps = <<2 * DelayScale, 3 * DelayScale>>

(***************************************************************************)
(* Claims about calculate_entry_exit_levels                                *)
(***************************************************************************)
Returned == lpc = "returned" /\ levels.raised = FALSE

\* An indicator as the claims read it: a missing key reads as 0.
Ind(k) == IF k \in DOMAIN indicators THEN indicators[k] ELSE 0

\* C5 (P1): the returned bias is BULLISH iff bullish_score > bearish_score,
\* BEARISH iff bearish_score > bullish_score, NEUTRAL iff the scores are equal.
C5_BiasOrdering ==
    Returned =>
        /\ levels.bias \in {"BULLISH", "BEARISH", "NEUTRAL"}
        /\ (levels.bias = "BULLISH") <=> (scores[1] > scores[2])
        /\ (levels.bias = "BEARISH") <=> (scores[2] > scores[1])
        /\ (levels.bias = "NEUTRAL") <=> (scores[1] = scores[2])

C5_Witness ==
    /\ Returned
    /\ scores = <<2, 2>>
    /\ levels.bias = "NEUTRAL"

\* The reference sums of section 4.2, rule by rule.
RefRatingBull == IF metrics["rating"] >= 2 THEN 2
                 ELSE IF 0 < metrics["rating"] /\ metrics["rating"] < 2 THEN 1 ELSE 0
RefRatingBear == IF metrics["rating"] <= -2 THEN 2
                 ELSE IF -2 < metrics["rating"] /\ metrics["rating"] < 0 THEN 1 ELSE 0
RefRsiBull == IF Ind("RSI") < 30 THEN 2
              ELSE IF 30 <= Ind("RSI") /\ Ind("RSI") < 40 THEN 1 ELSE 0
RefRsiBear == IF Ind("RSI") > 70 THEN 2
              ELSE IF 60 < Ind("RSI") /\ Ind("RSI") <= 70 THEN 1 ELSE 0
RefTrendBull == IF close_price > Ind("EMA50") /\ close_price > Ind("EMA200") THEN 2
                ELSE IF close_price > Ind("EMA50") THEN 1 ELSE 0
RefTrendBear == IF close_price < Ind("EMA50") /\ close_price < Ind("EMA200") THEN 2
                ELSE IF close_price < Ind("EMA50") THEN 1 ELSE 0

\* C6: the scores computed by the function equal the reference sums of the
\* rating, RSI and trend rules (missing keys read as 0); each rule adds to at
\* most one side and both scores lie in 0..6.
C6_ScoresMatchReference ==
    lpc = "returned" =>
        /\ scores[1] = RefRatingBull + RefRsiBull + RefTrendBull
        /\ scores[2] = RefRatingBear + RefRsiBear + RefTrendBear
        /\ RefRatingBull = 0 \/ RefRatingBear = 0
        /\ RefRsiBull = 0 \/ RefRsiBear = 0
        /\ RefTrendBull = 0 \/ RefTrendBear = 0
        /\ scores[1] \in 0..6
        /\ scores[2] \in 0..6

C6_Witness ==
    /\ lpc = "returned"
    /\ "RSI" \notin DOMAIN indicators
    /\ metrics["rating"] = 1
    /\ Ind("EMA50") = 99
    /\ Ind("EMA200") = 101
    /\ close_price = 100
    /\ scores = <<4, 0>>

\* C7 (P3): in the returned levels, bias BULLISH implies target_1 > entry.optimal
\* and bias BEARISH implies target_1 < entry.optimal, for every input.
C7_TradeDirection ==
    Returned =>
        /\ levels.bias = "BULLISH" => levels.take_profit.target_1 > levels.entry.optimal
        /\ levels.bias = "BEARISH" => levels.take_profit.target_1 < levels.entry.optimal

C9_Membership ==
    Returned =>
        /\ \A i \in 1..Len(levels.support_levels) :
              levels.support_levels[i][2] < close_price
        /\ \A i \in 1..Len(levels.resistance_levels) :
              levels.resistance_levels[i][2] > close_price

\* C10 as amended (P2, ordering): the returned support_levels list is sorted by
\* non-decreasing (close_price - level) and the resistance_levels list by
\* non-decreasing (level - close_price); consecutive entries may be at the
\* same distance.
C10_SortedByDistance ==
    Returned =>
        /\ \A i \in 1..(Len(levels.support_levels) - 1) :
              close_price - levels.support_levels[i][2]
                  <= close_price - levels.support_levels[i + 1][2]
        /\ \A i \in 1..(Len(levels.resistance_levels) - 1) :
              levels.resistance_levels[i][2] - close_price
                  <= levels.resistance_levels[i + 1][2] - close_price

C10_Witness ==
    /\ Returned
    /\ close_price = 100
    /\ levels.support_levels =
          <<<<"SMA20", 99>>, <<"EMA50", 99>>, <<"EMA200", 90>>>>
    /\ Len(levels.resistance_levels) = 1

\* C10 as stated: both lists are sorted by strictly increasing distance.
C10_StrictlySorted ==
    Returned =>
        /\ \A i \in 1..(Len(levels.support_levels) - 1) :
              close_price - levels.support_levels[i][2]
                  < close_price - levels.support_levels[i + 1][2]
        /\ \A i \in 1..(Len(levels.resistance_levels) - 1) :
              levels.resistance_levels[i][2] - close_price
                  < levels.resistance_levels[i + 1][2] - close_price

\* C11: in the returned levels, bias NEUTRAL means that entry holds a
\* description and nothing else and that stop_loss and take_profit are empty;
\* bias BULLISH or BEARISH means that entry.optimal, stop_loss.level and
\* take_profit.target_1 are all present (the keys read at lines 861-871).
C11_PresenceFollowsBias ==
    Returned =>
        /\ levels.bias = "NEUTRAL" =>
              /\ DOMAIN levels.entry = {"description"}
              /\ DOMAIN levels.stop_loss = {}
              /\ DOMAIN levels.take_profit = {}
        /\ levels.bias \in {"BULLISH", "BEARISH"} =>
              /\ {"optimal", "description"} \subseteq DOMAIN levels.entry
              /\ "level" \in DOMAIN levels.stop_loss
              /\ "target_1" \in DOMAIN levels.take_profit

C11_Witness ==
    /\ Returned
    /\ levels.bias = "BEARISH"
    /\ levels.resistance_levels = <<>>
    /\ levels.support_levels = <<>>
    /\ DOMAIN levels.stop_loss = {"level", "description"}
    /\ "target_1" \in DOMAIN levels.take_profit

\* The call is the one of Scenario A.
InScenarioA ==
    /\ close_price = 50000 \div PriceUnit
    /\ indicators = [k \in IndicatorKeys |->
                        CASE k = "BB.upper" -> 52000 \div PriceUnit
                          [] k = "BB.lower" -> 48000 \div PriceUnit
                          [] k = "SMA20" -> 49500 \div PriceUnit
                          [] k = "EMA50" -> 49000 \div PriceUnit
                          [] k = "EMA200" -> 47000 \div PriceUnit
                          [] OTHER -> 25]
    /\ metrics = [rating |-> 2]

\* C15 (Scenario A): for close 50000, BB.upper 52000, BB.lower 48000, SMA20
\* 49500, EMA50 49000, EMA200 47000, RSI 25 and rating 2 the call computes the
\* scores 6 and 0, returns bias BULLISH, selects SMA20 (49500, 1.01% away to
\* two decimals) as the entry support and returns entry.optimal = 49599, before
\* and after the validation.
C15_ScenarioA ==
    (lpc = "returned" /\ InScenarioA) =>
        /\ levels.raised = FALSE
        /\ scores = <<6, 0>>
        /\ levels.bias = "BULLISH"
        /\ selected = [found |-> TRUE, label |-> "SMA20", price |-> 49500 \div PriceUnit]
        /\ 1005 * selected.price <= (close_price - selected.price) * 100000
        /\ (close_price - selected.price) * 100000 < 1015 * selected.price
        /\ projected.entry.optimal = 49599 * (Scale \div PriceUnit)
        /\ levels.entry.optimal = 49599 * (Scale \div PriceUnit)

C15_Witness ==
    /\ Returned
    /\ InScenarioA
    /\ levels.bias = "BULLISH"
    /\ levels.entry.description = <<"Enter near (only % away)", "SMA20">>

\* The candidate supports of the claim other than SMA20 that lie strictly
\* below the price, and the candidate resistances strictly above it.
SupportsBelow ==
    {Ind(k) : k \in {"EMA50", "EMA200", "BB.lower"}} \cap {p \in 1..200 : p < close_price}
ResistancesAbove ==
    {Ind(k) : k \in {"EMA50", "BB.upper"}} \cap {p \in 1..200 : p > close_price}
Highest(S) == CHOOSE p \in S : \A q \in S : q <= p
Lowest(S) == CHOOSE p \in S : \A q \in S : p <= q

\* C17: when the bias is BULLISH the support that drives the entry is SMA20
\* whenever 0 < SMA20 < close_price; otherwise it is the nearest of EMA50,
\* EMA200 and the lower Bollinger band that lies strictly below close_price, and
\* it is absent only when none does.  BEARISH mirrors this with SMA20 above the
\* price, then the nearest of EMA50 and the upper Bollinger band strictly above.
C17_EntrySupportSelection ==
    lpc = "returned" =>
        /\ BiasOf(scores[1], scores[2]) = "BULLISH" =>
              IF 0 < Ind("SMA20") /\ Ind("SMA20") < close_price
              THEN selected = [found |-> TRUE, label |-> "SMA20", price |-> Ind("SMA20")]
              ELSE IF SupportsBelow # {}
              THEN selected.found /\ selected.price = Highest(SupportsBelow)
              ELSE ~selected.found
        /\ BiasOf(scores[1], scores[2]) = "BEARISH" =>
              IF 0 < Ind("SMA20") /\ Ind("SMA20") > close_price
              THEN selected = [found |-> TRUE, label |-> "SMA20", price |-> Ind("SMA20")]
              ELSE IF ResistancesAbove # {}
              THEN selected.found /\ selected.price = Lowest(ResistancesAbove)
              ELSE ~selected.found

\* The selected level lies at most pct percent of the current price away from it.
AtMostPctBelow(pct) == selected.found /\ (close_price - selected.price) * 100 <= pct * close_price
AtMostPctAbove(pct) == selected.found /\ (selected.price - close_price) * 100 <= pct * close_price

\* C18: before the validation, a BULLISH entry.optimal is 1.002 x the selected
\* support when that support exists and lies at most 2% below the current
\* price, and close_price in every other case; a BEARISH entry.optimal is
\* 0.998 x the selected resistance when it lies at most 2% above the current
\* price, and close_price otherwise.
C18_EntryPriceRule ==
    (lpc = "returned" /\ projected.raised = FALSE) =>
        /\ projected.bias = "BULLISH" =>
              projected.entry.optimal =
                  IF AtMostPctBelow(2) THEN selected.price * 1002 * (Scale \div 1000)
                  ELSE close_price * Scale
        /\ projected.bias = "BEARISH" =>
              projected.entry.optimal =
                  IF AtMostPctAbove(2) THEN selected.price * 998 * (Scale \div 1000)
                  ELSE close_price * Scale

\* C19: in the returned levels, a BULLISH stop_loss.level is 0.97 x the price of
\* the first entry of support_levels when that list is non-empty, else 0.95 x
\* the entry; a BEARISH stop_loss.level is 1.03 x the price of the first entry
\* of resistance_levels when that list is non-empty, else 1.05 x the entry.
C19_StopLossRule ==
    Returned =>
        /\ levels.bias = "BULLISH" =>
              levels.stop_loss.level =
                  IF Len(levels.support_levels) > 0
                  THEN levels.support_levels[1][2] * 97 * (Scale \div 100)
                  ELSE (projected.entry.optimal * 95) \div 100
        /\ levels.bias = "BEARISH" =>
              levels.stop_loss.level =
                  IF Len(levels.resistance_levels) > 0
                  THEN levels.resistance_levels[1][2] * 103 * (Scale \div 100)
                  ELSE (projected.entry.optimal * 105) \div 100

C19_Witness ==
    /\ Returned
    /\ levels.bias = "BULLISH"
    /\ close_price = 100
    /\ levels.support_levels = <<<<"EMA50", 99>>, <<"SMA20", 96>>>>
    /\ levels.entry.optimal = 100 * Scale
    /\ levels.stop_loss.level = 9603000

\* The call is the one of Scenario E: close 99, upper Bollinger band 102 as the
\* only level, RSI 25, rating 2.
InScenarioE ==
    /\ close_price = 99
    /\ indicators = [k \in {"BB.upper", "RSI"} |-> IF k = "RSI" THEN 25 ELSE 102]
    /\ metrics = [rating |-> 2]

\* C20: in the returned levels, with E the entry the branch computed: a BULLISH
\* target_1 with a non-empty resistance list is 0.99 x the first resistance,
\* unless that is below 1.03 x E, and then it is 1.05 x E with a description
\* carrying "(resistance too close)"; a BEARISH target_1 with a non-empty
\* support list is 1.01 x the first support, unless that is above 0.97 x E, and
\* then it is 0.95 x E.  Scenario E: the naive target is 1.02 x E and the
\* target returned is 1.05 x E.
C20_TargetOneRule ==
    Returned =>
        LET E == projected.entry.optimal
            R == levels.resistance_levels[1][2] * 99 * (Scale \div 100)
            S == levels.support_levels[1][2] * 101 * (Scale \div 100)
        IN /\ (levels.bias = "BULLISH" /\ Len(levels.resistance_levels) > 0) =>
                 IF R * 100 < E * 103
                 THEN /\ levels.take_profit.target_1 * 100 = E * 105
                      /\ levels.take_profit.target_1_desc[1]
                             = "5% above entry (resistance too close)"
                 ELSE levels.take_profit.target_1 = R
           /\ (levels.bias = "BEARISH" /\ Len(levels.support_levels) > 0) =>
                 IF S * 100 > E * 97
                 THEN levels.take_profit.target_1 * 100 = E * 95
                 ELSE levels.take_profit.target_1 = S
           /\ InScenarioE =>
                 /\ levels.bias = "BULLISH"
                 /\ R * 100 = E * 102
                 /\ levels.take_profit.target_1 * 100 = E * 105

C20_Witness ==
    /\ Returned
    /\ InScenarioE
    /\ levels.entry.optimal = 99 * Scale
    /\ levels.resistance_levels = <<<<"Bollinger Upper Band", 102>>>>
    /\ levels.take_profit.target_1 = 10395000

\* The 4-signal tally of C12, counted from the snapshot and the metrics the
\* call worked on.
TallyBullish ==
    (IF metrics["rating"] >= 2 THEN 1 ELSE 0)
        + (IF Get(indicators, "RSI", 0) < 30 THEN 1 ELSE 0)
        + (IF Get(indicators, "MACD.macd", 0) - Get(indicators, "MACD.signal", 0) > 0
           THEN 1 ELSE 0)
        + (IF Get(indicators, "close", 0) > Get(indicators, "EMA50", 0) THEN 1 ELSE 0)
TallyBearish ==
    (IF metrics["rating"] <= -2 THEN 1 ELSE 0)
        + (IF Get(indicators, "RSI", 0) > 70 THEN 1 ELSE 0)
        + (IF Get(indicators, "MACD.macd", 0) - Get(indicators, "MACD.signal", 0) > 0
           THEN 0 ELSE 1)
        + (IF Get(indicators, "close", 0) > Get(indicators, "EMA50", 0) THEN 0 ELSE 1)

RecordReturned == apc = "done" /\ aresult.kind = "record"

\* C12: the recommendation and the action of a returned record follow from the
\* 4-signal tally alone (rating >= 2 / <= -2, RSI < 30 / > 70, MACD above its
\* signal or not, close above EMA50 or not): STRONG BUY iff bullish > bearish + 1,
\* BUY iff bullish = bearish + 1, STRONG SELL iff bearish > bullish + 1, SELL iff
\* bearish = bullish + 1, NEUTRAL/HOLD iff equal; LONG for the buy labels, SHORT
\* for the sell labels, WAIT otherwise.
C12_RecommendationFromTally ==
    RecordReturned =>
        LET r == aresult.value
            bull == r.bullish_signals
            bear == r.bearish_signals
        IN /\ bull = TallyBullish
           /\ bear = TallyBearish
           /\ r.recommendation = "STRONG BUY" <=> bull > bear + 1
           /\ r.recommendation = "BUY" <=> bull = bear + 1
           /\ r.recommendation = "STRONG SELL" <=> bear > bull + 1
           /\ r.recommendation = "SELL" <=> bear = bull + 1
           /\ r.recommendation = "NEUTRAL/HOLD" <=> bull = bear
           /\ r.action = "LONG" <=> r.recommendation \in {"STRONG BUY", "BUY"}
           /\ r.action = "SHORT" <=> r.recommendation \in {"STRONG SELL", "SELL"}
           /\ r.action = "WAIT" <=> r.recommendation = "NEUTRAL/HOLD"

\* A BUY / LONG record whose levels carry another bias than BULLISH: the tally
\* is 2 to 1 (MACD above its signal, close above EMA50, RSI above 70).
C12_Witness ==
    /\ RecordReturned
    /\ aresult.value.recommendation = "BUY"
    /\ aresult.value.action = "LONG"
    /\ aresult.value.bullish_signals = 2
    /\ aresult.value.bearish_signals = 1
    /\ aresult.value.levels.bias # "BULLISH"

\* lines 903-931: the keys of the record
ResultKeys ==
    {"price", "change", "rating", "recommendation", "action", "levels", "open", "high",
     "low", "volume", "bb_upper", "bb_lower", "sma20", "bbw", "rsi", "ema50", "ema200",
     "macd", "macd_signal", "adx", "stoch_k", "stoch_d", "bullish_signals",
     "bearish_signals", "signal_details"}

\* C13: no exception escapes analyze_btc_daily: whatever the provider did,
\* whatever compute_metrics returned or raised and whatever the snapshot held
\* (a missing or zero close price included), a finished call has returned None
\* or a record with every one of its keys and the levels it computed.
C13_NoExceptionEscapes ==
    /\ aresult.kind # "raised"
    /\ apc = "done" =>
          \/ aresult = NoneResult
          \/ /\ aresult.kind = "record"
             /\ DOMAIN aresult.value = ResultKeys
             /\ aresult.value.levels = levels
             /\ levels.raised = FALSE

\* A call that got its data and its metrics, computed the levels of a BEARISH
\* plan at close price 0 and raised ZeroDivisionError in the display: None.
C13_Witness ==
    /\ apc = "done"
    /\ aresult = NoneResult
    /\ result.kind # "raised"
    /\ metricsOutcome.kind = "value"
    /\ levelsCalls = 1
    /\ levels.raised = FALSE
    /\ levels.bias # "NEUTRAL"
    /\ Get(indicators, "close", 0) = 0

\* Scenario D of the specification, section 8: three attempts, all empty.
ScenarioD ==
    /\ Len(outcomes) = 3
    /\ \A i \in 1..3 : outcomes[i] \in {"none", "emptydict"}

\* The stages of a finished call of C14.
C14_Gates ==
    apc = "done" =>
        /\ aresult.kind = "record" =>
              /\ IsValid(result, symbols)
              /\ metricsOutcome.kind = "value"
              /\ DOMAIN metricsOutcome.value # {}
              /\ metricsCalls = 1
              /\ levelsCalls = 1
        /\ ~IsValid(result, symbols) =>
              /\ aresult = NoneResult
              /\ metricsCalls = 0
              /\ metricsOutcome = NoMetrics
              /\ levelsCalls = 0
              /\ lpc = "ready"
        /\ ScenarioD =>
              /\ calls = 3
              /\ result = NoneValue
              /\ aresult = NoneResult
              /\ metricsCalls = 0
              /\ levelsCalls = 0
        /\ (metricsCalls = 1 /\ MetricsFalsy(metricsOutcome)) =>
              /\ aresult = NoneResult
              /\ levelsCalls = 0
              /\ lpc = "ready"

\* C14: a record is returned only after a fetch that handed back data and a
\* compute_metrics that returned a non-empty value; after a terminal fetch
\* failure (Scenario D: 3 attempts, all empty) None is returned and neither
\* compute_metrics nor calculate_entry_exit_levels has been called; after an
\* empty metrics result None is returned, the levels are not computed and
\* compute_metrics is not called again; once the fetch has returned, the rest
\* of the call makes no provider call.
C14_StageGating ==
    /\ [](C14_Gates)
    /\ [](metricsCalls <= 1 /\ levelsCalls <= metricsCalls)
    /\ [][(apc = "fetching" /\ pc = "done") =>
             (calls' = calls /\ outcomes' = outcomes /\ sleeps' = sleeps)]_vars

\* Scenario D has ended in None with no later stage entered.
C14_Witness ==
    /\ apc = "done"
    /\ ScenarioD
    /\ outcomes = <<"emptydict", "emptydict", "emptydict">>
    /\ aresult = NoneResult
    /\ metricsCalls = 0
    /\ levelsCalls = 0

\* Two finished calls that were given the same provider outcomes, the same
\* snapshot and the same compute_metrics outcome.
SameInputs(i, j) ==
    /\ history[i].outcomes = history[j].outcomes
    /\ history[i].indicators = history[j].indicators
    /\ history[i].metricsOutcome = history[j].metricsOutcome

EntryLevel == projected.entry.optimal
SecondResistance == levels.resistance_levels[2][2] * Scale
SecondSupport == levels.support_levels[2][2] * Scale

\* C21 as stated: target 2 is 0.99 x the second resistance (BULLISH) or taken
\* from the second support (BEARISH) when the list has at least two entries,
\* and 1.10 x entry (BULLISH) or 0.90 x entry (BEARISH) in every other case.
C21_TargetTwoAsStated ==
    Returned =>
        /\ levels.bias = "BULLISH" =>
              IF Len(levels.resistance_levels) >= 2
              THEN levels.take_profit.target_2 * 100 = SecondResistance * 99
              ELSE levels.take_profit.target_2 * 100 = EntryLevel * 110
        /\ levels.bias = "BEARISH" =>
              IF Len(levels.support_levels) >= 2
              THEN levels.take_profit.target_2 * 100 = SecondSupport * 101
              ELSE levels.take_profit.target_2 * 100 = EntryLevel * 90

\* C21, amended: target 2 is 0.99 x the second resistance (BULLISH) or
\* 1.01 x the second support (BEARISH) when the list has at least two entries;
\* 1.10 x entry (BULLISH) or 0.90 x entry (BEARISH) when the list has exactly
\* one entry; and 1.12 x entry (BULLISH) or 0.88 x entry (BEARISH) when the
\* list is empty.
C21_TargetTwoRule ==
    Returned =>
        /\ levels.bias = "BULLISH" =>
              /\ Len(levels.resistance_levels) >= 2 =>
                    /\ levels.take_profit.target_2 * 100 = SecondResistance * 99
                    /\ levels.take_profit.target_2_desc
                           = <<"Near", levels.resistance_levels[2][1]>>
              /\ Len(levels.resistance_levels) = 1 =>
                    levels.take_profit.target_2 * 100 = EntryLevel * 110
              /\ Len(levels.resistance_levels) = 0 =>
                    levels.take_profit.target_2 * 100 = EntryLevel * 112
        /\ levels.bias = "BEARISH" =>
              /\ Len(levels.support_levels) >= 2 =>
                    /\ levels.take_profit.target_2 * 100 = SecondSupport * 101
                    /\ levels.take_profit.target_2_desc
                           = <<"Near", levels.support_levels[2][1]>>
              /\ Len(levels.support_levels) = 1 =>
                    levels.take_profit.target_2 * 100 = EntryLevel * 90
              /\ Len(levels.support_levels) = 0 =>
                    levels.take_profit.target_2 * 100 = EntryLevel * 88

\* A BULLISH plan at close price 100 with no resistance: target 2 is
\* 1.12 x 100, not 1.10 x 100.
C21_Witness ==
    /\ Returned
    /\ levels.bias = "BULLISH"
    /\ close_price = 100
    /\ levels.resistance_levels = <<>>
    /\ EntryLevel = 100 * Scale
    /\ levels.take_profit.target_2 = 112 * Scale

\* No support level qualifies: each of SMA20, EMA50, EMA200 and BB.lower is
\* zero or at or above the close price.
NoSupportQualifies ==
    \A k \in {"SMA20", "EMA50", "EMA200", "BB.lower"} : Ind(k) = 0 \/ Ind(k) >= close_price

\* C22: Scenario B, the percentage fallback: whenever the bias is BULLISH and
\* no support level qualifies, the stop-loss is 0.95 x entry and target 1 is
\* 1.06 x entry.
C22_ScenarioB ==
    (Returned /\ levels.bias = "BULLISH" /\ NoSupportQualifies) =>
        /\ levels.stop_loss.level * 100 = levels.entry.optimal * 95
        /\ levels.take_profit.target_1 * 100 = levels.entry.optimal * 106

\* The setup as it stands before the validation is inconsistent: the tests of
\* lines 379, 386, 397 and 404.
Inconsistent(lv, c) ==
    /\ lv.raised = FALSE
    /\ \/ /\ lv.bias = "BULLISH"
          /\ \/ lv.take_profit.target_1 <= lv.entry.optimal
             \/ lv.entry.optimal > Times(c, 1010)
       \/ /\ lv.bias = "BEARISH"
          /\ \/ lv.take_profit.target_1 >= lv.entry.optimal
             \/ lv.entry.optimal < Times(c, 990)

\* C23 as stated: some indicator configuration with a positive close price
\* gives, before the validation, an inconsistent setup, so that a validation
\* override fires.  The configurations are those the calls are made on.
C23_ValidationReachable ==
    /\ lpc \in {"ready", "returned"}
    /\ \/ \E c \in ClosePrices, ind \in Snapshots, r \in Ratings :
             c > 0 /\ Inconsistent(ProjectLevels(c, ind, [rating |-> r]), c)
       \/ \E in \in ScenarioInputs :
             in.c > 0 /\ Inconsistent(ProjectLevels(in.c, in.ind, in.m), in.c)

\* C23, amended: with a positive close price the entry and target rules never
\* produce an inconsistent setup (BULLISH: target_1 > entry and
\* entry <= 1.01 x close_price; BEARISH: target_1 < entry and
\* entry >= 0.99 x close_price), so the validation changes nothing; an
\* override fires only at close price 0.
C23_ValidationOnlyAtZero ==
    Returned =>
        /\ close_price > 0 =>
              /\ ~Inconsistent(projected, close_price)
              /\ levels = projected
        /\ levels # projected =>
              /\ close_price = 0
              /\ Inconsistent(projected, close_price)

\* A BULLISH plan at close price 0: entry 0 and target 1 0.99 x 0 = 0, which
\* the validation overrides and flags.
C23_Witness ==
    /\ Returned
    /\ close_price = 0
    /\ levels.bias = "BULLISH"
    /\ projected.take_profit.target_1 <= projected.entry.optimal
    /\ levels # projected
    /\ levels.take_profit.target_1_desc = <<"6% above entry (auto-corrected)", "">>

\* The descriptions that contain "(auto-corrected)".
Flagged(desc) ==
    desc[1] \in {"6% above entry (auto-corrected)",
                 "6% below entry (auto-corrected)",
                 "Enter at current price or slight pullback (auto-corrected)",
                 "Enter at current price or slight bounce (auto-corrected)"}

\* The consistency tests of C24 on the levels before the validation.
TargetTestFails ==
    IF projected.bias = "BULLISH"
    THEN projected.take_profit.target_1 <= projected.entry.optimal
    ELSE projected.take_profit.target_1 >= projected.entry.optimal
EntryTestFails ==
    IF projected.bias = "BULLISH"
    THEN projected.entry.optimal > Times(close_price, 1010)
    ELSE projected.entry.optimal < Times(close_price, 990)

\* C24: the validation sets target_1 to 1.06 x entry (BULLISH) or 0.94 x entry
\* (BEARISH) exactly when the target test fails, and entry.optimal to
\* 0.99 x close_price (BULLISH) or 1.01 x close_price (BEARISH) exactly when
\* the entry test fails; the matching description contains "(auto-corrected)"
\* iff that value was overridden; and stop_loss, target_2, the support and
\* resistance lists and the bias keep their values.
C24_AutoCorrectionFlagged ==
    Returned =>
        /\ levels.bias = projected.bias
        /\ levels.support_levels = projected.support_levels
        /\ levels.resistance_levels = projected.resistance_levels
        /\ levels.stop_loss = projected.stop_loss
        /\ levels.current_price = projected.current_price
        /\ levels.bias = "NEUTRAL" => levels = projected
        /\ levels.bias # "NEUTRAL" =>
              /\ levels.take_profit.target_2 = projected.take_profit.target_2
              /\ levels.take_profit.target_2_desc = projected.take_profit.target_2_desc
              /\ ~Flagged(projected.take_profit.target_1_desc)
              /\ ~Flagged(projected.entry.description)
              /\ Flagged(levels.take_profit.target_1_desc) <=> TargetTestFails
              /\ Flagged(levels.entry.description) <=> EntryTestFails
              /\ IF TargetTestFails
                 THEN levels.take_profit.target_1 * 100
                          = projected.entry.optimal
                                * (IF levels.bias = "BULLISH" THEN 106 ELSE 94)
                 ELSE /\ levels.take_profit.target_1 = projected.take_profit.target_1
                      /\ levels.take_profit.target_1_desc
                             = projected.take_profit.target_1_desc
              /\ IF EntryTestFails
                 THEN levels.entry.optimal
                          = Times(close_price, IF levels.bias = "BULLISH" THEN 990 ELSE 1010)
                 ELSE levels.entry = projected.entry

\* A BULLISH plan at close price -100: entry -100 and target 1 -106 fail both
\* tests; the target becomes 1.06 x -100 and the entry 0.99 x -100, both are
\* flagged, and the stop-loss and target 2 keep their values.
C24_Witness ==
    /\ Returned
    /\ levels.bias = "BULLISH"
    /\ close_price = -100
    /\ TargetTestFails
    /\ EntryTestFails
    /\ Flagged(levels.take_profit.target_1_desc)
    /\ Flagged(levels.entry.description)
    /\ levels.entry.optimal = -99 * Scale
    /\ levels.take_profit.target_1 = -106 * Scale
    /\ levels.stop_loss = projected.stop_loss
    /\ levels.take_profit.target_2 = projected.take_profit.target_2

RECURSIVE SumOf(_)
SumOf(seq) == IF seq = <<>> THEN 0 ELSE seq[1] + SumOf(Tail(seq))

\* delay x (1 + 1.5 + ... + 1.5^(n-1)) for the delay argument d, scaled like
\* the delays slept.
RECURSIVE GeometricSum(_, _)
GeometricSum(d, n) ==
    IF n <= 0 THEN 0
    ELSE GeometricSum(d, n - 1) + Pow(3, n - 1) * ((d * DelayScale) \div Pow(2, n - 1))

\* The failed attempts of the invocation other than the max_retries-th.
FailedBeforeLast ==
    Cardinality({i \in 1..Len(outcomes) : outcomes[i] # "valid" /\ i # max_retries})

\* C25: get_analysis_with_retry never sleeps after its final attempt: an
\* invocation with max_retries = N sleeps at most N - 1 times, once after each
\* failed attempt other than the N-th, so the total time slept is at most
\* delay x (1 + 1.5 + ... + 1.5^(N-2)), whatever kinds of failure occurred.
C25_NoSleepAfterFinalAttempt ==
    /\ Len(sleeps) <= (IF max_retries > 0 THEN max_retries - 1 ELSE 0)
    /\ pc = "sleep" => calls < max_retries
    /\ pc \in {"loop", "done"} => Len(sleeps) = FailedBeforeLast
    /\ pc = "sleep" => Len(sleeps) + 1 = FailedBeforeLast
    /\ SumOf(sleeps) <= GeometricSum(delay0, max_retries - 1)
    /\ (pc = "done" /\ calls = max_retries /\ NoValidOutcome) =>
          SumOf(sleeps) = GeometricSum(delay0, max_retries - 1)

\* Three failures of three kinds with max_retries = 3 and delay = 2: two sleeps,
\* 2 s and 3 s, and none after the third attempt.
C25_Witness ==
    /\ pc = "done"
    /\ max_retries = 3
    /\ delay0 = 2
    /\ outcomes = <<"Exception", "emptydict", "JSONDecodeError">>
    /\ Len(sleeps) = 2
    /\ SumOf(sleeps) = 5 * DelayScale

\* C26: the stop-loss is on the losing side of the entry: for every input with
\* a positive close price, stop_loss.level < entry.optimal when the bias is
\* BULLISH and stop_loss.level > entry.optimal when it is BEARISH.
C26_StopOnLosingSide ==
    (Returned /\ close_price > 0) =>
        /\ levels.bias = "BULLISH" => levels.stop_loss.level < levels.entry.optimal
        /\ levels.bias = "BEARISH" => levels.stop_loss.level > levels.entry.optimal

\* C27: the action and the bias of one result never point in opposite
\* directions: in every record returned by analyze_btc_daily, action LONG
\* comes with a levels bias other than BEARISH and action SHORT with a bias
\* other than BULLISH.
C27_ActionAgreesWithBias ==
    RecordReturned =>
        /\ aresult.value.action = "LONG" => aresult.value.levels.bias # "BEARISH"
        /\ aresult.value.action = "SHORT" => aresult.value.levels.bias # "BULLISH"

\* C28: the second target lies beyond the first: for every input with a
\* positive close price, target_2 > target_1 when the bias is BULLISH and
\* target_2 < target_1 when it is BEARISH.
C28_SecondTargetBeyondFirst ==
    (Returned /\ close_price > 0) =>
        /\ levels.bias = "BULLISH" =>
              levels.take_profit.target_2 > levels.take_profit.target_1
        /\ levels.bias = "BEARISH" =>
              levels.take_profit.target_2 < levels.take_profit.target_1

(***************************************************************************)
(* streamlit_btc_dashboard: the rate-limit gate                            *)
(*                                                                         *)
(* Every browser session runs the script top to bottom on each interaction *)
(* with its own st.session_state; RATE_LIMIT_FILE is one file shared by    *)
(* every session of the server.  One script run is one action, except     *)
(* that a run which starts an analysis is cut where another session can    *)
(* observe it: after open(RATE_LIMIT_FILE, 'w') has truncated the file,    *)
(* and after the file has been written and closed.                         *)
(***************************************************************************)
\* Bounds of the model: the clock ticks and the analysis starts recorded.
MaxTicks == 5
MaxStarts == 2

\* line 308: the options of the selectbox; line 232: the initial value
CooldownOptions == {60, 120}
DefaultCooldown == 60

\* The file while a writer holds it open: truncated, nothing written yet.
EmptyFile == [content |-> "empty", t |-> NoTime]
JsonFile(t) == [content |-> "json", t |-> t]

\* lines 42-51: the saved time, or None when the file is missing or when
\* json.load raises on it (the bare except at line 49).
load_rate_limit_state(f) == IF f.content = "json" THEN f.t ELSE NoTime

\* lines 53-59: the file as left by the with block of save_rate_limit_state
save_rate_limit_state(timestamp) == JsonFile(timestamp)

\* line 774: `if st.session_state.last_analysis_time:`, false of None and of 0
TruthyTime(t) == t # NoTime /\ t # 0

\* lines 770-776
CooldownRemaining(current_time, last, cooldown_seconds) ==
    IF TruthyTime(last)
    THEN LET time_since_last == current_time - last
             left == cooldown_seconds - time_since_last
         IN IF left > 0 THEN left ELSE 0
    ELSE 0

\* A gate that takes the click of the button as proof that the cooldown is over.
ShouldRunTrustsButton(run_analysis, cooldown_remaining) == run_analysis

\* lines 797-802: should_run
ShouldRun(run_analysis, cooldown_remaining) ==
    run_analysis /\ ~(cooldown_remaining > 0)

\* lines 227-232 and the rest of the first script run of a session, in which
\* the button cannot have been clicked yet.
NewSession(s) ==
    /\ sess[s].state = "absent"
    /\ sess' = [sess EXCEPT ![s] = [state |-> "idle",
                                    last |-> load_rate_limit_state(rateFile),
                                    cooldown |-> DefaultCooldown,
                                    cached |-> "none"]]
    /\ UNCHANGED <<now, rateFile, starts>>
    /\ UNCHANGED <<retryVars, levelVars, analyzeVars>>

\* lines 306-313 and 770-805: a script run of an open session, with the
\* cooldown chosen in the selectbox and with the button clicked or not.  A run
\* that passes the gate stores current_time and enters save_rate_limit_state,
\* whose open() truncates the file.
Rerun(s, cooldown_time, run_analysis) ==
    /\ sess[s].state = "idle"
    /\ LET current_time == now
           before == sess[s].last
           remaining == CooldownRemaining(current_time, before, cooldown_time)
       IN IF ShouldRun(run_analysis, remaining)
          THEN /\ Len(starts) < MaxStarts
               /\ sess' = [sess EXCEPT ![s].cooldown = cooldown_time,
                                       ![s].last = current_time,
                                       ![s].state = "saving"]
               /\ rateFile' = EmptyFile
               /\ starts' = Append(starts, [session |-> s,
                                            time |-> current_time,
                                            cooldown |-> cooldown_time,
                                            before |-> before])
          ELSE /\ sess' = [sess EXCEPT ![s].cooldown = cooldown_time]
               /\ UNCHANGED <<rateFile, starts>>
    /\ UNCHANGED now
    /\ UNCHANGED <<retryVars, levelVars, analyzeVars>>

\* lines 56-57: json.dump and the close of the file, after which the run goes
\* on to line 810 with should_run set.
SaveDone(s) ==
    /\ sess[s].state = "saving"
    /\ rateFile' = save_rate_limit_state(sess[s].last)
    /\ sess' = [sess EXCEPT ![s].state = "analysing"]
    /\ UNCHANGED <<now, starts>>
    /\ UNCHANGED <<retryVars, levelVars, analyzeVars>>

\* lines 810-816: analyze_btc_daily returns a result or None, which is cached.
AnalysisDone(s, ok) ==
    /\ sess[s].state = "analysing"
    /\ sess' = [sess EXCEPT ![s].state = "idle",
                            ![s].cached = IF ok THEN "result" ELSE "none"]
    /\ UNCHANGED <<now, rateFile, starts>>
    /\ UNCHANGED <<retryVars, levelVars, analyzeVars>>

\* The wall clock moves on.
Tick ==
    /\ now + TickSeconds <= MaxTicks * TickSeconds
    /\ now' = now + TickSeconds
    /\ UNCHANGED <<rateFile, sess, starts>>
    /\ UNCHANGED <<retryVars, levelVars, analyzeVars>>

DashInit == RetryInit

DashNext ==
    \/ \E s \in SessionIds : NewSession(s)
    \/ \E s \in SessionIds, c \in CooldownOptions, click \in BOOLEAN : Rerun(s, c, click)
    \/ \E s \in SessionIds : SaveDone(s)
    \/ \E s \in SessionIds, ok \in BOOLEAN : AnalysisDone(s, ok)
    \/ Tick

DashSpec == DashInit /\ [][DashNext]_vars

\* The analysis starts of one session, in order.
StartsOf(s) == SelectSeq(starts, LAMBDA e : e.session = s)

\* Every recorded start passed the gate: last_analysis_time was unset, or the
\* cooldown selected in that run had elapsed since it.
StartsPassedGate ==
    \A i \in DOMAIN starts :
        \/ starts[i].before = NoTime
        \/ starts[i].time - starts[i].before >= starts[i].cooldown

\* From the gate to the return of analyze_btc_daily the session holds the
\* time of its latest start.
StartTimeStored ==
    \A s \in SessionIds :
        sess[s].state \in {"saving", "analysing"} =>
            /\ StartsOf(s) # <<>>
            /\ sess[s].last = StartsOf(s)[Len(StartsOf(s))].time
            /\ sess[s].last = now \/ sess[s].last < now

\* Two successive starts of one session are at least the cooldown selected at
\* the later one apart.
SessionStartsApart ==
    \A s \in SessionIds : \A j \in 2..Len(StartsOf(s)) :
        /\ StartsOf(s)[j].before = StartsOf(s)[j - 1].time
        /\ StartsOf(s)[j].time - StartsOf(s)[j - 1].time >= StartsOf(s)[j].cooldown

\* analyze_btc_daily is entered only from save_rate_limit_state, with the
\* start time in the file; its return, with a result or with None, leaves
\* last_analysis_time and the file alone.
SavedBeforeAnalysis ==
    \A s \in SessionIds :
        /\ (sess[s].state # "analysing" /\ sess'[s].state = "analysing") =>
              /\ sess[s].state = "saving"
              /\ rateFile' = JsonFile(sess[s].last)
              /\ sess'[s].last = sess[s].last
        /\ (sess[s].state = "analysing" /\ sess'[s].state # "analysing") =>
              /\ sess'[s].state = "idle"
              /\ sess'[s].last = sess[s].last
              /\ rateFile' = rateFile

C30_NoTwoStartsInsideCooldown ==
    \A i \in DOMAIN starts : \A j \in DOMAIN starts :
        i < j => starts[j].time - starts[i].time >= starts[j].cooldown

====
